---- MODULE Spec2Model ----
(***************************************************************************)
(* The shark-behaviour pipeline of predictive_model/py_files:              *)
(*   preprocess_data.py         feature builder and environmental fusion   *)
(*   FInalModel.py              constraint filter, resampler, inference,   *)
(*                              behaviour labelling                        *)
(*   export_foraging_areas.py   detailed export and hotspot summary        *)
(*                                                                         *)
(* Units.  Time is in whole hours since midnight of day 0.  Latitude and   *)
(* longitude are in hundredths of a degree.  step_length is in km and      *)
(* speed_km_day in km/day, both whole numbers.  An angle is kept exactly,  *)
(* as a direction <<x, y>>: the angle atan2(y, x), with <<1, 0>> the angle *)
(* 0.  The six environmental covariates of a row (chlor_a, carbon_phyto,   *)
(* poc, sst, water_depth, eddy_speed) are always copied together and are   *)
(* kept as the one field env.                                              *)
(***************************************************************************)
EXTENDS Integers, Sequences, FiniteSets, TLC

VARIABLES
    pc,              \* position of the run in the pipeline
    csv,             \* content of preprocessed_shark_pace_data.csv
    df,              \* table returned by load_preprocessed_data
    df_constrained,  \* enhanced_train_hmm: result of the constraint filter
    df_final,        \* enhanced_train_hmm: table handed to bayesian_hmm_mcmc
    df_enhanced,     \* enhanced_train_hmm: table with states and behaviours
    stages,          \* the stages that have finished, in order of finishing
    detailed,        \* rows written by export_foraging_areas_csv
    summary,         \* rows written by create_foraging_summary_csv
    engine,          \* bayesian_hmm_mcmc: its locals while a call is followed
                     \* statement by statement
    env_data,        \* extract_pace_environmental_data: its result
    prep             \* preprocess_shark_data and load_pace_data: their locals,
                     \* the files they hold open and what they have printed

vars == <<pc, csv, df, df_constrained, df_final, df_enhanced, stages, detailed,
          summary, engine, env_data, prep>>

(***************************************************************************)
(* Generic helpers.                                                        *)
(***************************************************************************)
Min(a, b) == IF a <= b THEN a ELSE b
Max(a, b) == IF a >= b THEN a ELSE b
Abs(a) == IF a < 0 THEN -a ELSE a
\* r with the field f set to v, added when r has no such field
\* (pandas: assignment to a column creates it).
SetCol(r, f, v) == [g \in DOMAIN r \cup {f} |-> IF g = f THEN v ELSE r[g]]

RECURSIVE SumCol(_, _)
\* the sum of column f of the table d
SumCol(d, f) == IF d = <<>> THEN 0 ELSE SumCol(SubSeq(d, 1, Len(d) - 1), f) + d[Len(d)][f]

RECURSIVE SeqsUpTo(_, _)
\* the sequences over S of length at most n
SeqsUpTo(S, n) ==
    IF n = 0 THEN {<<>>}
    ELSE LET shorter == SeqsUpTo(S, n - 1)
         IN  shorter \cup {Append(q, x) : q \in {t \in shorter : Len(t) = n - 1}, x \in S}

(***************************************************************************)
(* Constraint filter: FInalModel.apply_smart_biological_constraints.       *)
(***************************************************************************)
MAX_BURST_SPEED == 74 * 24
MAX_SUSTAINED_SPEED == 20 * 24
TYPICAL_MAX_SPEED == 10 * 24

\* load_preprocessed_data parses df["datetime"], so every table that reaches
\* the filter has the column.
HasDatetimeColumn == TRUE

\* Variant of Clip with no lower bound, used to show that C6 depends on it.
ClipUpperOnly(x, lo, hi) == IF x > hi THEN hi ELSE x
\* np.clip(x, lo, hi)
Clip(x, lo, hi) == IF x < lo THEN lo ELSE IF x > hi THEN hi ELSE x

\* reasonable_time_hours = 12; max_step = (MAX_BURST_SPEED / 24) * 12
MaxStep == (MAX_BURST_SPEED \div 24) * 12

\* Variant of CapStep that caps every row, used to show that C8 depends on
\* the speed condition.
CapStepAlways(speed, step) == Min(step, MaxStep)
\* the loop of lines 47-51, on one row whose speed is already clipped
CapStep(speed, step) ==
    IF speed = MAX_BURST_SPEED /\ HasDatetimeColumn THEN Min(step, MaxStep) ELSE step

SpeedCategory(speed) ==
    IF speed = MAX_BURST_SPEED THEN "capped"
    ELSE IF speed > MAX_SUSTAINED_SPEED THEN "very_high"
    ELSE IF speed > TYPICAL_MAX_SPEED THEN "high"
    ELSE "normal"

DataQuality(step) ==
    IF step > 500 THEN "poor"
    ELSE IF step > 200 THEN "suspicious"
    ELSE "good"

\* one row of df_fixed
FixRow(r) ==
    LET speed == Clip(r.speed_km_day, 0, MAX_BURST_SPEED)
        step  == CapStep(speed, r.step_length)
    IN  SetCol(SetCol(SetCol(SetCol(r, "speed_km_day", speed), "step_length", step),
                      "speed_category", SpeedCategory(speed)),
               "data_quality", DataQuality(step))

\* Variant of the filter that removes the rows it grades "poor", used to show
\* that C7 depends on the rows being kept.
DropPoorRows(d) == SelectSeq([i \in 1..Len(d) |-> FixRow(d[i])], LAMBDA r : r.data_quality # "poor")
\* df_fixed = df.copy(), then the column assignments; the copy is returned
ApplySmartBiologicalConstraints(d) == [i \in 1..Len(d) |-> FixRow(d[i])]

(***************************************************************************)
(* Geometry of FInalModel.discretize_to_time_steps (lines 111-130).        *)
(***************************************************************************)
Degree == 10 * 10   \* one degree, in the model's unit of 0.01 degree

\* R * 2 * arcsin(sqrt(a)) of lines 111-116 with R = 6371, rounded to the
\* nearest km, for latitudes of 0..5 whole degrees and longitudes 0..2 whole
\* degrees apart: HaversineTable[<<lat1, lat2>>][dlon + 1], lat1 <= lat2.
HaversineTable ==
    <<0, 0>> :> <<0, 111, 222>> @@
    <<0, 1>> :> <<111, 157, 249>> @@
    <<0, 2>> :> <<222, 249, 314>> @@
    <<0, 3>> :> <<334, 352, 401>> @@
    <<0, 4>> :> <<445, 458, 497>> @@
    <<0, 5>> :> <<556, 567, 599>> @@
    <<1, 1>> :> <<0, 111, 222>> @@
    <<1, 2>> :> <<111, 157, 249>> @@
    <<1, 3>> :> <<222, 249, 314>> @@
    <<1, 4>> :> <<334, 352, 401>> @@
    <<1, 5>> :> <<445, 458, 497>> @@
    <<2, 2>> :> <<0, 111, 222>> @@
    <<2, 3>> :> <<111, 157, 248>> @@
    <<2, 4>> :> <<222, 249, 314>> @@
    <<2, 5>> :> <<334, 352, 401>> @@
    <<3, 3>> :> <<0, 111, 222>> @@
    <<3, 4>> :> <<111, 157, 248>> @@
    <<3, 5>> :> <<222, 249, 314>> @@
    <<4, 4>> :> <<0, 111, 222>> @@
    <<4, 5>> :> <<111, 157, 248>> @@
    <<5, 5>> :> <<0, 111, 222>>

\* step_length of lines 111-116 (the formula is symmetric in the two points)
Haversine(lat1, lon1, lat2, lon2) ==
    HaversineTable[<<Min(lat1, lat2) \div Degree, Max(lat1, lat2) \div Degree>>]
                  [Abs(lon2 - lon1) \div Degree + 1]

RECURSIVE GCD(_, _)
GCD(a, b) == IF b = 0 THEN a ELSE GCD(b, a % b)

\* the direction of <<x, y>> in lowest terms; <<0, 0>> has the angle
\* atan2(0, 0) = 0, the direction <<1, 0>>
Direction(x, y) ==
    IF x = 0 /\ y = 0 THEN <<1, 0>>
    ELSE LET g == GCD(Abs(x), Abs(y)) IN <<x \div g, y \div g>>
        \* \div is exact here: g divides both

\* np.arctan2(dlat, dlon)
Bearing(dlat, dlon) == Direction(dlon, dlat)

\* np.arctan2(np.sin(b2 - b1), np.cos(b2 - b1)): the angle b2 - b1, wrapped
AngleDiff(b2, b1) ==
    Direction(b1[1] * b2[1] + b1[2] * b2[2], b1[1] * b2[2] - b1[2] * b2[1])

ZeroAngle == <<1, 0>>

(***************************************************************************)
(* Resampler: FInalModel.discretize_to_time_steps.                         *)
(***************************************************************************)
StepIntervalHours == 6     \* tstep * 24 with tstep = 0.25
ToleranceHours == 3        \* timedelta(hours=3)

\* df["shark_id"].unique(): the ids in order of first appearance
UniqueSharks(d) ==
    LET firsts == SelectSeq([i \in 1..Len(d) |-> i],
                            LAMBDA i : \A j \in 1..(i - 1) : d[j].shark_id # d[i].shark_id)
    IN  [k \in 1..Len(firsts) |-> d[firsts[k]].shark_id]

RECURSIVE InsertByDatetime(_, _)
InsertByDatetime(sorted, r) ==
    IF sorted = <<>> THEN <<r>>
    ELSE IF sorted[Len(sorted)].datetime <= r.datetime THEN Append(sorted, r)
    ELSE Append(InsertByDatetime(SubSeq(sorted, 1, Len(sorted) - 1), r), sorted[Len(sorted)])

RECURSIVE SortByDatetime(_)
\* sort_values("datetime"): rows of equal datetime keep their order
SortByDatetime(d) ==
    IF d = <<>> THEN <<>>
    ELSE InsertByDatetime(SortByDatetime(SubSeq(d, 1, Len(d) - 1)), d[Len(d)])

\* df[df["shark_id"] == shark_id].sort_values("datetime").reset_index(drop=True)
SharkData(d, shark_id) == SortByDatetime(SelectSeq(d, LAMBDA r : r.shark_id = shark_id))

\* start_rounded: start_time with minutes cleared and the hour lowered to a
\* multiple of the step (24 is a multiple of 6, so the day does not matter)
StartRounded(start_time) == (start_time \div StepIntervalHours) * StepIntervalHours

\* time_steps: start_rounded, start_rounded + 6 h, ... while <= end_time
TimeSteps(shark_data) ==
    LET start_rounded == StartRounded(shark_data[1].datetime)
        end_time      == shark_data[Len(shark_data)].datetime
        n             == (end_time - start_rounded) \div StepIntervalHours + 1
    IN  [k \in 1..n |-> start_rounded + (k - 1) * StepIntervalHours]

\* time_diffs = abs(shark_data["datetime"] - time_step)
TimeDiff(shark_data, j, time_step) == Abs(shark_data[j].datetime - time_step)

\* Variant of ClosestIdx that carries the last earlier row forward, used to
\* show that C2 depends on the nearest row being taken.
CarriedForwardIdx(shark_data, time_step) ==
    LET before == {j \in 1..Len(shark_data) : shark_data[j].datetime <= time_step}
    IN  IF before = {} THEN 1 ELSE CHOOSE j \in before : \A k \in before : k <= j
\* time_diffs.idxmin(): the first row at the least distance
ClosestIdx(shark_data, time_step) ==
    CHOOSE j \in 1..Len(shark_data) :
        /\ \A k \in 1..Len(shark_data) :
              TimeDiff(shark_data, j, time_step) <= TimeDiff(shark_data, k, time_step)
        /\ \A k \in 1..(j - 1) :
              TimeDiff(shark_data, j, time_step) < TimeDiff(shark_data, k, time_step)

\* Variant of Matched with a strict bound, used to show that C1 depends on
\* the tolerance being inclusive.
MatchedStrictly(shark_data, time_step) ==
    TimeDiff(shark_data, ClosestIdx(shark_data, time_step), time_step) < ToleranceHours
\* time_diffs.loc[closest_idx] <= timedelta(hours=3)
Matched(shark_data, time_step) ==
    TimeDiff(shark_data, ClosestIdx(shark_data, time_step), time_step) <= ToleranceHours

\* lines 123-130: the turning angle of the row for obs, prev_obs being the
\* match of the previous grid point and shark_results the rows so far
TurningAngle(shark_results, prev_obs, obs) ==
    IF Len(shark_results) > 0
    THEN LET prev_result == shark_results[Len(shark_results)]
             bearing1 == Bearing(prev_obs.latitude - prev_result.latitude,
                                 prev_obs.longitude - prev_result.longitude)
             bearing2 == Bearing(obs.latitude - prev_obs.latitude,
                                 obs.longitude - prev_obs.longitude)
         IN  AngleDiff(bearing2, bearing1)
    ELSE ZeroAngle

\* Variant of CapResampledSpeed that keeps the speed as computed, used to show
\* that C29 depends on line 120.
UncappedSpeed(speed_km_per_day) == speed_km_per_day
\* lines 119-120: MAX_SPEED = 74 * 24; min(speed_km_per_day, MAX_SPEED)
CapResampledSpeed(speed_km_per_day) == Min(speed_km_per_day, MAX_BURST_SPEED)

\* lines 111-147: the row for the grid point of 0-based index i
Result(shark_id, shark_results, time_step, i, prev_obs, obs) ==
    LET step_length == Haversine(prev_obs.latitude, prev_obs.longitude,
                                 obs.latitude, obs.longitude)
        \* step_length / step_interval_hours * 24
        speed_km_per_day == (step_length * 24) \div StepIntervalHours
    IN  [shark_id      |-> shark_id,
         datetime      |-> time_step,
         time_step     |-> i,
         latitude      |-> obs.latitude,
         longitude     |-> obs.longitude,
         step_length   |-> step_length,
         turning_angle |-> TurningAngle(shark_results, prev_obs, obs),
         speed_km_day  |-> CapResampledSpeed(speed_km_per_day),
         env           |-> obs.env]

\* the condition of lines 100-108 under which grid point k (1-based) gets a row
Emits(shark_data, time_steps, k) ==
    /\ Matched(shark_data, time_steps[k])
    /\ k > 1
    /\ Matched(shark_data, time_steps[k - 1])

RECURSIVE SharkResults(_, _, _, _)
\* shark_results after the grid points time_steps[1..k] (lines 95-149)
SharkResults(shark_id, shark_data, time_steps, k) ==
    IF k = 0 THEN <<>>
    ELSE LET before == SharkResults(shark_id, shark_data, time_steps, k - 1)
         IN  IF Emits(shark_data, time_steps, k)
             THEN Append(before,
                         Result(shark_id, before, time_steps[k], k - 1,
                                shark_data[ClosestIdx(shark_data, time_steps[k - 1])],
                                shark_data[ClosestIdx(shark_data, time_steps[k])]))
             ELSE before

\* one pass of the loop of line 76: the rows of one shark
DiscretizeShark(d, shark_id) ==
    LET shark_data == SharkData(d, shark_id)
    IN  IF Len(shark_data) < 2 THEN <<>>
        ELSE LET time_steps == TimeSteps(shark_data)
             IN  SharkResults(shark_id, shark_data, time_steps, Len(time_steps))

RECURSIVE DiscretizeSharks(_, _)
\* results after the sharks ids[1..Len(ids)] (line 151)
DiscretizeSharks(d, ids) ==
    IF ids = <<>> THEN <<>>
    ELSE DiscretizeSharks(d, SubSeq(ids, 1, Len(ids) - 1)) \o DiscretizeShark(d, ids[Len(ids)])

\* results of discretize_to_time_steps, before the choice of lines 155-160
DiscretizedRows(d) == DiscretizeSharks(d, UniqueSharks(d))

\* Variant of DiscretizeToTimeSteps that always returns its input, used to
\* show that C4 depends on the rows being rebuilt.
DiscretizeReturnsInput(d) == d
\* discretize_to_time_steps(df): with no row at all the input is returned
DiscretizeToTimeSteps(d) ==
    LET results == DiscretizedRows(d)
    IN  IF Len(results) > 0 THEN results ELSE d

(***************************************************************************)
(* Inference engine: FInalModel.bayesian_hmm_mcmc.  The fit itself is the  *)
(* library's; its result is any posterior per row.  A probability is a     *)
(* whole number of ProbScale-ths.                                          *)
(***************************************************************************)
ProbScale == 3
Thin == 10              \* thin=10 in the call of enhanced_train_hmm
NComponents == 2        \* n_components=2

\* Variant of ArgMaxState taking the less likely component, used to show that
\* C12 depends on the arg-max.
ArgMinState(p0) == IF p0 <= ProbScale - p0 THEN 0 ELSE 1
\* bgm.predict: np.argmax of the two posteriors, the first on a tie
ArgMaxState(p0) == IF p0 >= ProbScale - p0 THEN 0 ELSE 1

\* the posterior of state s in a row whose state_probability_0 is p0
ProbOf(p0, s) == IF s = 0 THEN p0 ELSE ProbScale - p0

\* lines 195-204: the states one row can get.  With thin > 1 a row is, by a
\* random draw, either left at the arg-max or given np.random.choice(2, p=probs),
\* which returns a state of positive probability.
PossibleStates(p0, thin) ==
    IF thin > 1 THEN {ArgMaxState(p0)} \cup {s \in {0, 1} : ProbOf(p0, s) > 0}
    ELSE {ArgMaxState(p0)}

\* the <<state_probability_0, predicted_state>> pairs a row can get
RowOutcomes(thin) == {o \in (0..ProbScale) \X {0, 1} : o[2] \in PossibleStates(o[1], thin)}

\* lines 206-209: the four columns added to one row
Scored(r, o) ==
    SetCol(SetCol(SetCol(SetCol(r, "predicted_state", o[2]),
                         "state_probability_0", o[1]),
                  "state_probability_1", ProbScale - o[1]),
           "state_uncertainty", ProbScale - Max(o[1], ProbScale - o[1]))

\* the table returned by bayesian_hmm_mcmc for the outcomes out[i] of the rows
BayesianHmmMcmc(d, out) == [i \in 1..Len(d) |-> Scored(d[i], out[i])]

\* bgm.fit raises ValueError on fewer samples than components
FitFails(d) == Len(d) < NComponents

(***************************************************************************)
(* bayesian_hmm_mcmc statement by statement.  engine holds the locals of   *)
(* the call: thin, X (line 175), X_scaled (line 178), the number of rows   *)
(* the mixture was fitted on (line 190), state_probs (line 193) and states *)
(* (lines 192 and 204).  A feature value is kept doubled, so that the      *)
(* median of an even number of values is a whole number.  The features     *)
(* followed are step_length and the covariates env; turning_angle goes     *)
(* through the same statements.                                            *)
(***************************************************************************)
Features == {"step_length", "env"}

Missing == -1       \* a NaN cell of a feature column; real values are >= 0

Idle == [thin |-> Thin, X |-> <<>>, X_scaled |-> <<>>, fitted_on |-> 0,
         state_probs |-> <<>>, states |-> <<>>]

RECURSIVE InsertValue(_, _)
InsertValue(sorted, x) ==
    IF sorted = <<>> THEN <<x>>
    ELSE IF x <= Head(sorted) THEN <<x>> \o sorted
    ELSE <<Head(sorted)>> \o InsertValue(Tail(sorted), x)

RECURSIVE SortedValues(_)
SortedValues(q) ==
    IF q = <<>> THEN <<>> ELSE InsertValue(SortedValues(Tail(q)), Head(q))

\* the values of column f that are not NaN
Present(d, f) ==
    LET col == [i \in 1..Len(d) |-> d[i][f]]
    IN  SelectSeq(col, LAMBDA x : x # Missing)

\* df[features].median(), doubled: NaN cells are skipped, and a column with
\* no value at all has the median NaN
DoubledMedian(d, f) ==
    LET v == SortedValues(Present(d, f))
        n == Len(v)
    IN  IF n = 0 THEN Missing
        ELSE IF n % 2 = 1 THEN 2 * v[(n + 1) \div 2]
        ELSE v[n \div 2] + v[n \div 2 + 1]

\* X = df[features].fillna(df[features].median()).values, doubled (line 175)
FeatureMatrix(d) ==
    [i \in 1..Len(d) |->
        [f \in Features |-> IF d[i][f] # Missing THEN 2 * d[i][f] ELSE DoubledMedian(d, f)]]

HasNaN(X) == \E i \in 1..Len(X) : \E f \in Features : X[i][f] = Missing

\* a feature whose column of X holds one value only
ConstantFeatures(X) ==
    {f \in Features : Len(X) > 0 /\ \A i \in 1..Len(X) : X[i][f] = X[1][f]}

\* StandardScaler.fit_transform(X), line 178: (x - mean) / std over all the
\* rows of the column, kept exactly as <<n * x - sum, n * sumsq - sum * sum>>,
\* the numerator and the square of the denominator, both times n; a column
\* of zero variance is divided by 1, and a NaN stays NaN
Standardized(X) ==
    [i \in 1..Len(X) |->
        [f \in Features |->
            IF HasNaN(X) /\ \E j \in 1..Len(X) : X[j][f] = Missing THEN <<Missing, 1>>
            ELSE LET n     == Len(X)
                     sum   == SumCol(X, f)
                     sumsq == SumCol([j \in 1..n |-> [g \in {f} |-> X[j][f] * X[j][f]]], f)
                     var   == n * sumsq - sum * sum
                 IN  <<n * X[i][f] - sum, IF var = 0 THEN 1 ELSE var>>]]

(***************************************************************************)
(* Behaviour labelling: FInalModel.enhanced_train_hmm, lines 234-258.      *)
(***************************************************************************)
RECURSIVE SumSpeed(_, _)
SumSpeed(d, s) ==
    IF d = <<>> THEN 0
    ELSE SumSpeed(SubSeq(d, 1, Len(d) - 1), s)
         + (IF d[Len(d)].predicted_state = s THEN d[Len(d)].speed_km_day ELSE 0)

CountState(d, s) == Cardinality({i \in 1..Len(d) : d[i].predicted_state = s})

\* the index of state_stats: the states that occur
StatesPresent(d) == {d[i].predicted_state : i \in 1..Len(d)}

\* Variant of IdxMaxSpeed taking the slower state, used to show that C10
\* depends on the choice.
IdxMinSpeed(d) ==
    IF SumSpeed(d, 0) * CountState(d, 1) <= SumSpeed(d, 1) * CountState(d, 0) THEN 0 ELSE 1
\* state_stats["speed_km_day"].idxmax(), both states occurring: the state of
\* the greater mean speed, state 0 when the means are equal
\* (mean0 >= mean1 iff sum0 * n1 >= sum1 * n0)
IdxMaxSpeed(d) ==
    IF SumSpeed(d, 0) * CountState(d, 1) >= SumSpeed(d, 1) * CountState(d, 0) THEN 0 ELSE 1

\* behavior_map of lines 249-256
BehaviorMap(d) ==
    IF Cardinality(StatesPresent(d)) >= 2
    THEN LET high_speed_state == IdxMaxSpeed(d)
         IN  [s \in {0, 1} |-> IF s = high_speed_state THEN "Migrating" ELSE "Foraging"]
    ELSE [s \in {0, 1} |-> IF s = 0 THEN "Foraging" ELSE "Migrating"]

\* df_enhanced["behavior"] = df_enhanced["predicted_state"].map(behavior_map)
LabelBehavior(d) ==
    [i \in 1..Len(d) |-> SetCol(d[i], "behavior", BehaviorMap(d)[d[i].predicted_state])]

(***************************************************************************)
(* Detailed export: export_foraging_areas.export_foraging_areas_csv.       *)
(***************************************************************************)
ExportColumns ==
    {"shark_id", "latitude", "longitude", "datetime", "behavior", "predicted_state",
     "state_probability_0", "state_probability_1", "state_uncertainty",
     "speed_km_day", "step_length", "env"}

\* pd.cut(speed, bins=[0, 50, 150, 300, 2000]): intervals open on the left and
\* closed on the right; a value in none of them gets no label (NaN)
ExportSpeedCategory(speed) ==
    IF speed > 0 /\ speed <= 50 THEN "Low"
    ELSE IF speed > 50 /\ speed <= 150 THEN "Medium"
    ELSE IF speed > 150 /\ speed <= 300 THEN "High"
    ELSE IF speed > 300 /\ speed <= 2000 THEN "Very_High"
    ELSE "NaN"

\* lines 27-55 on one row: the selected columns, then the derived ones
\* (confidence >= 0.7 iff 10 * confidence >= 7, in ProbScale-ths)
ExportRow(r) ==
    LET kept == [c \in ExportColumns |-> r[c]]
        confidence == ProbScale - r.state_uncertainty
    IN  SetCol(SetCol(SetCol(SetCol(SetCol(kept,
            "is_foraging", IF r.behavior = "Foraging" THEN 1 ELSE 0),
            "is_migrating", IF r.behavior = "Migrating" THEN 1 ELSE 0),
            "confidence", confidence),
            "high_confidence", IF 10 * confidence >= 7 * ProbScale THEN 1 ELSE 0),
            "speed_category", ExportSpeedCategory(r.speed_km_day))

ExportForagingAreasCsv(d) == [i \in 1..Len(d) |-> ExportRow(d[i])]

(***************************************************************************)
(* Hotspot summary: export_foraging_areas.create_foraging_summary_csv.     *)
(* Output numbers keep the decimals the code rounds them to: intensity and *)
(* mean speed in hundredths, the other ratios in thousandths.              *)
(***************************************************************************)
NoSummary == [written |-> FALSE, rows |-> <<>>]

\* round(a / b) for b > 0, as numpy and pandas round: to the nearest whole
\* number, a half to the even neighbour
RoundDiv(a, b) ==
    LET q == a \div b
        r == a % b
    IN  IF 2 * r < b THEN q
        ELSE IF 2 * r > b THEN q + 1
        ELSE IF q % 2 = 0 THEN q ELSE q + 1

BinWidth == 10      \* 0.1 degree, in hundredths of a degree

\* (x / 0.1).round() * 0.1, lines 109-110
SpatialBin(x) == RoundDiv(x, BinWidth) * BinWidth

\* df_enhanced[df_enhanced['behavior'] == 'Foraging'], line 102
ForagingRows(d) == SelectSeq(d, LAMBDA r : r.behavior = "Foraging")

\* the <<lat_bin, lon_bin>> of a row
BinOf(r) == <<SpatialBin(r.latitude), SpatialBin(r.longitude)>>

\* the group keys of groupby(['lat_bin', 'lon_bin'])
BinsOf(foraging_df) == {BinOf(foraging_df[i]) : i \in 1..Len(foraging_df)}

\* the order of the groups: by lat_bin, then by lon_bin
BinBefore(a, b) == a[1] < b[1] \/ (a[1] = b[1] /\ a[2] < b[2])

RECURSIVE SortedBins(_)
SortedBins(bins) ==
    IF bins = {} THEN <<>>
    ELSE LET first == CHOOSE a \in bins : \A b \in bins \ {a} : BinBefore(a, b)
         IN  <<first>> \o SortedBins(bins \ {first})

\* Variant of UniqueSharksIn that counts the rows, used to show that C17
\* depends on the subjects being counted once each.
CountRows(group) == Len(group)
\* 'shark_id': 'nunique'
UniqueSharksIn(group) == Cardinality({group[i].shark_id : i \in 1..Len(group)})

\* lines 133-134 and 148: foraging_observations * (1 - avg_uncertainty),
\* rounded to 2 decimals; n * (1 - u / (n * ProbScale)) = (n * ProbScale - u) / ProbScale
ForagingIntensity(n, uncertainty_sum) ==
    RoundDiv(100 * (n * ProbScale - uncertainty_sum), ProbScale)

\* lines 113-149: the output row of one group
HotspotRow(bin, group) ==
    LET n == Len(group)
        u == SumCol(group, "state_uncertainty")
    IN  [latitude              |-> bin[1],
         longitude             |-> bin[2],
         unique_sharks         |-> UniqueSharksIn(group),
         foraging_observations |-> n,
         avg_uncertainty       |-> RoundDiv(1000 * u, n * ProbScale),
         avg_speed_km_day      |-> RoundDiv(100 * SumCol(group, "speed_km_day"), n),
         avg_env               |-> RoundDiv(100 * SumCol(group, "env"), n),
         avg_confidence        |-> RoundDiv(1000 * (n * ProbScale - u), n * ProbScale),
         foraging_intensity    |-> ForagingIntensity(n, u),
         shark_diversity       |-> RoundDiv(1000 * UniqueSharksIn(group), n)]

\* summary_df before the sort: one row per group, in the order of the groups
GroupedRows(foraging_df) ==
    LET bins == SortedBins(BinsOf(foraging_df))
    IN  [k \in 1..Len(bins) |->
            HotspotRow(bins[k], SelectSeq(foraging_df, LAMBDA r : BinOf(r) = bins[k]))]

RECURSIVE InsertByIntensity(_, _)
InsertByIntensity(sorted, r) ==
    IF sorted = <<>> THEN <<r>>
    ELSE IF Head(sorted).foraging_intensity < r.foraging_intensity
         THEN <<r>> \o sorted
         ELSE <<Head(sorted)>> \o InsertByIntensity(Tail(sorted), r)

\* Variant of SortByIntensity that keeps the order of the groups, used to
\* show that C16 depends on the sort.
KeepGroupOrder(rows) == rows

RECURSIVE SortByIntensity(_)
\* sort_values('foraging_intensity', ascending=False), line 152; rows of equal
\* intensity keep the order of the groups
SortByIntensity(rows) ==
    IF rows = <<>> THEN <<>>
    ELSE InsertByIntensity(SortByIntensity(SubSeq(rows, 1, Len(rows) - 1)), rows[Len(rows)])

\* create_foraging_summary_csv: nothing is written when no row is Foraging
\* (lines 104-106)
CreateForagingSummaryCsv(d) ==
    LET foraging_df == ForagingRows(d)
    IN  IF Len(foraging_df) = 0 THEN NoSummary
        ELSE [written |-> TRUE, rows |-> SortByIntensity(GroupedRows(foraging_df))]

(***************************************************************************)
(* The run: preprocess_data.preprocess_shark_data writes the csv, then     *)
(* export_foraging_areas.generate_plotting_csvs loads it and calls         *)
(* enhanced_train_hmm and the export.  One thread, one batch.              *)
(***************************************************************************)
NoFile == [exists |-> FALSE, rows |-> <<>>]

\* a row of the csv, as calculate_movement_features and the fusion loop of
\* preprocess_shark_data write it
InputRow(shark_id, datetime, latitude, longitude, speed, step, env) ==
    [shark_id      |-> shark_id,
     datetime      |-> datetime,
     latitude      |-> latitude,
     longitude     |-> longitude,
     step_length   |-> step,
     turning_angle |-> ZeroAngle,
     speed_km_day  |-> speed,
     env           |-> env]

\* Variant of FileFound that takes the file for granted, used to show that
\* C5 depends on the file having been written.
FileAssumed(file) == TRUE
\* os.path.exists(filename)
FileFound(file) == file.exists

\* Variant of GivesUp that goes on without a table, used to show that C20
\* depends on the test of lines 179-182.
NeverGivesUp(file) == FALSE
\* df is None (generate_plotting_csvs lines 179-182, main lines 336-337)
GivesUp(file) == ~FileFound(file)

\* len(pace_data) == 0, preprocess_shark_data line 287
NoComposites(pace_data) == pace_data = 0

\* preprocess_shark_data: with no composite loaded it returns None before it
\* reads the tracks (lines 285-289); else it builds the features, fuses the
\* covariates and writes the csv (lines 292-321)
PreprocessSharkData(tables) ==
    /\ pc = "start"
    /\ \E pace_data \in {0, 1} :
          IF NoComposites(pace_data)
          THEN /\ pc' = "no_composites"
               /\ UNCHANGED <<csv, stages>>
          ELSE /\ \E t \in tables : csv' = [exists |-> TRUE, rows |-> t]
               /\ pc' = "preprocessed"
               /\ stages' = Append(stages, "feature_builder")
    /\ UNCHANGED <<df, df_constrained, df_final, df_enhanced, detailed>>
    /\ UNCHANGED <<summary, engine, env_data>>
    /\ UNCHANGED prep

\* load_preprocessed_data, called by generate_plotting_csvs (lines 177-182)
LoadPreprocessedData ==
    /\ pc \in {"start", "preprocessed", "no_composites"}
    /\ IF GivesUp(csv)
       THEN df' = df /\ pc' = "no_data"
       ELSE df' = csv.rows /\ pc' = "loaded"
    /\ UNCHANGED <<csv, df_constrained, df_final, df_enhanced, stages, detailed>>
    /\ UNCHANGED <<summary, engine, env_data>>
    /\ UNCHANGED prep

\* enhanced_train_hmm, line 216
ConstrainStep ==
    /\ pc = "loaded"
    /\ df_constrained' = ApplySmartBiologicalConstraints(df)
    /\ pc' = "constrained"
    /\ stages' = Append(stages, "constraint_filter")
    /\ UNCHANGED <<csv, df, df_final, df_enhanced, detailed>>
    /\ UNCHANGED <<summary, engine, env_data>>
    /\ UNCHANGED prep

\* enhanced_train_hmm, lines 218-224
DiscretizeStep ==
    /\ pc = "constrained"
    /\ LET df_discretized == DiscretizeToTimeSteps(df_constrained)
       IN  df_final' = IF Len(df_discretized) = 0 THEN df_constrained ELSE df_discretized
    /\ pc' = "discretized"
    /\ stages' = Append(stages, "resampler")
    /\ UNCHANGED <<csv, df, df_constrained, df_enhanced, detailed>>
    /\ UNCHANGED <<summary, engine, env_data>>
    /\ UNCHANGED prep

\* df_final is df_constrained itself when the resampler returned its input:
\* the columns bayesian_hmm_mcmc and the labelling add in place show in both
SameTable == df_final = df_constrained

\* enhanced_train_hmm, lines 226-232; an exception ends generate_plotting_csvs
\* (lines 206-210)
InferStep ==
    /\ pc = "discretized"
    /\ IF FitFails(df_final)
       THEN /\ pc' = "error"
            /\ UNCHANGED <<df_constrained, df_final, df_enhanced, stages>>
       ELSE /\ \E out \in [1..Len(df_final) -> RowOutcomes(Thin)] :
                 /\ df_enhanced' = BayesianHmmMcmc(df_final, out)
                 /\ df_final' = df_enhanced'
                 /\ df_constrained' = IF SameTable THEN df_enhanced' ELSE df_constrained
            /\ pc' = "inferred"
            /\ stages' = Append(stages, "inference")
    /\ UNCHANGED <<csv, df, detailed>>
    /\ UNCHANGED <<summary, engine, env_data>>
    /\ UNCHANGED prep

\* enhanced_train_hmm, lines 234-278
LabelStep ==
    /\ pc = "inferred"
    /\ df_enhanced' = LabelBehavior(df_enhanced)
    /\ df_final' = df_enhanced'
    /\ df_constrained' = IF SameTable THEN df_enhanced' ELSE df_constrained
    /\ pc' = "labelled"
    /\ UNCHANGED <<csv, df, stages, detailed>>
    /\ UNCHANGED <<summary, engine, env_data>>
    /\ UNCHANGED prep

\* generate_plotting_csvs, lines 189-192
ExportStep ==
    /\ pc = "labelled"
    /\ detailed' = ExportForagingAreasCsv(df_enhanced)
    /\ summary' = CreateForagingSummaryCsv(df_enhanced)
    /\ pc' = "exported"
    /\ stages' = Append(stages, "export")
    /\ UNCHANGED <<csv, df, df_constrained, df_final, df_enhanced>>
    /\ UNCHANGED <<engine, env_data>>
    /\ UNCHANGED prep

(***************************************************************************)
(* A call of bayesian_hmm_mcmc followed statement by statement; InferStep  *)
(* is the whole call.                                                      *)
(***************************************************************************)
\* line 175
CollectFeatures ==
    /\ pc = "engine_called"
    /\ engine' = [engine EXCEPT !.X = FeatureMatrix(df_final)]
    /\ pc' = "features"
    /\ UNCHANGED <<csv, df, df_constrained, df_final, df_enhanced, stages, detailed>>
    /\ UNCHANGED <<summary, env_data>>
    /\ UNCHANGED prep

\* lines 177-178; StandardScaler raises ValueError on a table of no row
ScaleFeatures ==
    /\ pc = "features"
    /\ IF Len(engine.X) = 0
       THEN pc' = "error" /\ engine' = engine
       ELSE /\ engine' = [engine EXCEPT !.X_scaled = Standardized(engine.X)]
            /\ pc' = "scaled"
    /\ UNCHANGED <<csv, df, df_constrained, df_final, df_enhanced, stages, detailed>>
    /\ UNCHANGED <<summary, env_data>>
    /\ UNCHANGED prep

\* Variant of FittedFirst that lets the prediction start on the bare feature
\* matrix, used to show that C15 depends on the order of the statements.
FittedOrNot == pc \in {"features", "fitted"}
\* the position of line 192: after the fit of line 190
FittedFirst == pc = "fitted"

\* line 190: bgm.fit(X_scaled) raises ValueError on fewer rows than
\* components and on a NaN; a column of one value only is no error, its
\* variance being raised by reg_covar
FitModel ==
    /\ pc = "scaled"
    /\ IF FitFails(engine.X_scaled) \/ HasNaN(engine.X)
       THEN pc' = "error" /\ engine' = engine
       ELSE /\ engine' = [engine EXCEPT !.fitted_on = Len(engine.X_scaled)]
            /\ pc' = "fitted"
    /\ UNCHANGED <<csv, df, df_constrained, df_final, df_enhanced, stages, detailed>>
    /\ UNCHANGED <<summary, env_data>>
    /\ UNCHANGED prep

\* lines 192-193: the posteriors of every row, and their arg-max
Predict ==
    /\ FittedFirst
    /\ \E state_probs \in [1..Len(engine.X) -> 0..ProbScale] :
          engine' = [engine EXCEPT
                        !.state_probs = state_probs,
                        !.states = [i \in 1..Len(engine.X) |-> ArgMaxState(state_probs[i])]]
    /\ pc' = "predicted"
    /\ UNCHANGED <<csv, df, df_constrained, df_final, df_enhanced, stages, detailed>>
    /\ UNCHANGED <<summary, env_data>>
    /\ UNCHANGED prep

\* lines 195-204
ThinStates ==
    /\ pc = "predicted"
    /\ \E states \in [1..Len(engine.states) -> {0, 1}] :
          /\ \A i \in 1..Len(engine.states) :
                states[i] \in PossibleStates(engine.state_probs[i], engine.thin)
          /\ engine' = [engine EXCEPT !.states = states]
    /\ pc' = "thinned"
    /\ UNCHANGED <<csv, df, df_constrained, df_final, df_enhanced, stages, detailed>>
    /\ UNCHANGED <<summary, env_data>>
    /\ UNCHANGED prep

\* lines 206-210: the columns are added to the table that was passed in
WriteColumns ==
    /\ pc = "thinned"
    /\ df_enhanced' = BayesianHmmMcmc(df_final,
                          [i \in 1..Len(df_final) |-> <<engine.state_probs[i], engine.states[i]>>])
    /\ df_final' = df_enhanced'
    /\ df_constrained' = IF SameTable THEN df_enhanced' ELSE df_constrained
    /\ pc' = "inferred"
    /\ stages' = Append(stages, "inference")
    /\ UNCHANGED <<csv, df, detailed, summary, engine, env_data>>
    /\ UNCHANGED prep

(***************************************************************************)
(* The environmental lookup of one row:                                    *)
(* preprocess_data.extract_pace_environmental_data.  chlor_a is in         *)
(* hundredths of mg/m3 and eddy_speed in tenths of m/s; the other four     *)
(* values are in their own units.                                          *)
(***************************************************************************)
Covariates == {"chlor_a", "carbon_phyto", "poc", "sst", "water_depth", "eddy_speed"}

\* raw: env_data as lines 161-220 leave it; values: env_data as returned
\* available: the keys of pace_data; pace_date: the argument; closest: the
\* key whose composite is used (line 155)
NoEnvData == [extracted |-> FALSE,
              available |-> {},
              pace_date |-> 0,
              closest   |-> 0,
              raw       |-> [c \in Covariates |-> 0],
              values    |-> [c \in Covariates |-> 0]]

\* timedelta.days of a difference of hours: the whole days, rounded down
Days(hours) == hours \div 24

\* the key of line 152
DayDistance(x, pace_date) == Abs(Days(x - pace_date))

\* lines 149-155: the keys the lookup can end on.  A date that is a key is
\* used as it is; else min() returns the first key of least DayDistance in
\* the order of the dict, which is the order glob listed the files in: any
\* key of least DayDistance
ClosestDates(pace_date, available) ==
    IF pace_date \in available THEN {pace_date}
    ELSE {x \in available : \A y \in available : DayDistance(x, pace_date) <= DayDistance(y, pace_date)}

\* the bounds of lines 223-228
EnvBounds ==
    [chlor_a      |-> <<5, 500>>,
     carbon_phyto |-> <<5, 300>>,
     poc          |-> <<20, 500>>,
     sst          |-> <<10, 32>>,
     water_depth  |-> <<-6000, -10>>,
     eddy_speed   |-> <<0, 20>>]

\* Variant of ClipEnvData that returns the values as computed, used to show
\* that C19 depends on the clipping.
Unclipped(raw) == raw
\* lines 223-228
ClipEnvData(raw) == [c \in Covariates |-> Clip(raw[c], EnvBounds[c][1], EnvBounds[c][2])]

\* the values lines 161-220 can compute for covariate c: each adds a normal
\* draw to a base built from the composite or from a default, so any number
\* comes out; those next to the two bounds are followed
RawValues(c) == {EnvBounds[c][1] - 1, EnvBounds[c][1], EnvBounds[c][2], EnvBounds[c][2] + 1}

\* the dates of the composites and the dates asked for, in hours: midnights
\* of days 1, 2 and 4, and times of day between them
CompositeDates == {24, 48, 96}
LookupTimes == {24, 25, 47, 72}

ExtractPaceEnvironmentalData ==
    /\ pc = "fusing"
    /\ \E available \in (SUBSET CompositeDates) \ {{}}, pace_date \in LookupTimes :
       \E closest \in ClosestDates(pace_date, available) :
       \E chlor_a \in RawValues("chlor_a"), carbon_phyto \in RawValues("carbon_phyto"),
          poc \in RawValues("poc"), sst \in RawValues("sst"),
          water_depth \in RawValues("water_depth"), eddy_speed \in RawValues("eddy_speed") :
          LET raw == [chlor_a |-> chlor_a, carbon_phyto |-> carbon_phyto, poc |-> poc,
                      sst |-> sst, water_depth |-> water_depth, eddy_speed |-> eddy_speed]
          IN  env_data' = [extracted |-> TRUE, available |-> available,
                           pace_date |-> pace_date, closest |-> closest,
                           raw |-> raw, values |-> ClipEnvData(raw)]
    /\ pc' = "fused"
    /\ UNCHANGED <<csv, df, df_constrained, df_final, df_enhanced, stages, detailed>>
    /\ UNCHANGED <<summary, engine>>
    /\ UNCHANGED prep

(***************************************************************************)
(* The satellite loader: preprocess_data.load_pace_data.  A file of        *)
(* pace_files or swot_files is what the two loops can meet in it: a name   *)
(* that does not parse, a dataset that does not open, a variable whose     *)
(* read raises, a variable that is absent.  A date is the hour of its      *)
(* midnight.                                                               *)
(***************************************************************************)
NoPrep == [pace_files |-> <<>>, swot_files |-> <<>>, i |-> 0, j |-> 0,
           open |-> {}, pace_data |-> {}, swot_data |-> {}, log |-> <<>>,
           df_sample |-> <<>>, df_mapped |-> <<>>, movement_df |-> <<>>]

SwotLimit == 10     \* swot_files[:10]

\* the datasets still open once ds is bound to a newly opened dataset: the
\* code has closed none of them, and the collector may or may not have
\* closed the one ds was bound to before
Rebound(open) == {open, {}}

\* the dataset of this iteration, if the iteration leaves it open: ds.close()
\* (lines 68 and 104) is the last statement of the try block and is skipped
\* when a read raises; there is no finally and no with
LeftOpen(handle, fault) == IF fault = "read" THEN {handle} ELSE {}

\* lines 62-66: pace_data[file_date] = {...}; a later file of the same date
\* replaces the entry
StoreComposite(pace_data, file) ==
    {c \in pace_data : c.date # file.date} \cup {[date |-> file.date, chlor_a |-> file.chlor_a]}

\* one iteration of the loop of lines 25-71
LoadPaceFile ==
    /\ pc = "loading"
    /\ prep.i < Len(prep.pace_files)
    /\ LET k == prep.i + 1
           file == prep.pace_files[k]
           opens == file.fault \in {"none", "read"}   \* line 33 is passed
       IN  \E before \in (IF opens THEN Rebound(prep.open) ELSE {prep.open}) :
              prep' = [prep EXCEPT
                         !.i = k,
                         !.open = before \cup LeftOpen(<<"pace", k>>, file.fault),
                         !.pace_data = IF file.fault = "none"
                                       THEN StoreComposite(prep.pace_data, file)
                                       ELSE prep.pace_data]
    /\ UNCHANGED <<pc, csv, df, df_constrained, df_final, df_enhanced, stages, detailed>>
    /\ UNCHANGED <<summary, engine, env_data>>

\* one iteration of the loop of lines 76-107
LoadSwotFile ==
    /\ pc = "loading"
    /\ prep.i = Len(prep.pace_files)
    /\ prep.j < Min(Len(prep.swot_files), SwotLimit)
    /\ LET k == prep.j + 1
           file == prep.swot_files[k]
           opens == file.fault \in {"none", "read"}   \* line 78 is passed
       IN  \E before \in (IF opens THEN Rebound(prep.open) ELSE {prep.open}) :
              prep' = [prep EXCEPT
                         !.j = k,
                         !.open = before \cup LeftOpen(<<"swot", k>>, file.fault),
                         !.swot_data = IF file.fault = "none" /\ file.ssh
                                       THEN prep.swot_data \cup {k}
                                       ELSE prep.swot_data]
    /\ UNCHANGED <<pc, csv, df, df_constrained, df_final, df_enhanced, stages, detailed>>
    /\ UNCHANGED <<summary, engine, env_data>>

\* lines 109-120: the statistics are computed and the function returns
ReturnPaceData ==
    /\ pc = "loading"
    /\ prep.i = Len(prep.pace_files)
    /\ prep.j = Min(Len(prep.swot_files), SwotLimit)
    /\ pc' = "pace_loaded"
    /\ UNCHANGED <<prep, csv, df, df_constrained, df_final, df_enhanced, stages, detailed>>
    /\ UNCHANGED <<summary, engine, env_data>>

(***************************************************************************)
(* The feature builder: preprocess_data.preprocess_shark_data with         *)
(* map_shark_to_pace_dates and calculate_movement_features.  A row of      *)
(* sharks_cleaned.csv has the columns id, datetime, latitude, longitude.   *)
(***************************************************************************)
\* a row of sharks_cleaned.csv
Ping(id, datetime, latitude, longitude) ==
    [id |-> id, datetime |-> datetime, latitude |-> latitude, longitude |-> longitude]

\* the tables with the rows of d in any order
Reorderings(d) ==
    {[i \in 1..Len(d) |-> d[f[i]]] :
        f \in {g \in [1..Len(d) -> 1..Len(d)] : \A a, b \in 1..Len(d) : g[a] = g[b] => a = b}}

\* line 298: df.sample(n=sample_size, random_state=42) of a table of at most
\* sample_size rows returns all its rows in the order the seeded generator
\* draws them in
Sampled(d) == Reorderings(d)

RECURSIVE SortedDates(_)
\* sorted(pace_data.keys())
SortedDates(dates) ==
    IF dates = {} THEN <<>>
    ELSE LET last == CHOOSE x \in dates : \A y \in dates : y <= x
         IN  Append(SortedDates(dates \ {last}), last)

\* pace_data.keys()
Keys(pace_data) == {c.date : c \in pace_data}

\* Variant of CycledDate that leaves the row its own timestamp, used to show
\* that C30 depends on the dates being taken from the composite table.
OwnDate(pace_dates, i, row) == row.datetime
\* line 134: pace_dates[i % len(pace_dates)], i counting the rows from 0
CycledDate(pace_dates, i, row) == pace_dates[(i % Len(pace_dates)) + 1]

\* map_shark_to_pace_dates, lines 125-144
MapSharkToPaceDates(shark_df, pace_data) ==
    LET pace_dates == SortedDates(Keys(pace_data))
    IN  [k \in 1..Len(shark_df) |->
            LET row == shark_df[k]
                pace_date == CycledDate(pace_dates, k - 1, row)
            IN  [id                |-> row.id,
                 latitude          |-> row.latitude,
                 longitude         |-> row.longitude,
                 original_datetime |-> row.datetime,
                 datetime          |-> pace_date,
                 pace_date         |-> pace_date]]

\* shark_df["id"].unique(): the ids in order of first appearance
UniqueIds(d) ==
    LET firsts == SelectSeq([i \in 1..Len(d) |-> i],
                            LAMBDA i : \A j \in 1..(i - 1) : d[j].id # d[i].id)
    IN  [k \in 1..Len(firsts) |-> d[firsts[k]].id]

\* line 239: the rows of one subject in the order of the table; nothing sorts
\* them
Sdata(shark_df, shark_id) == SelectSeq(shark_df, LAMBDA r : r.id = shark_id)

MinTrack == 3       \* line 240: len(sdata) < 3

\* Variant of TooShort that takes every track, used to show that C23 depends
\* on the test of line 240.
NeverTooShort(sdata) == FALSE
\* line 240
TooShort(sdata) == Len(sdata) < MinTrack

\* Variant of MovementSpeed that divides whatever the elapsed time is (the
\* quotient by zero taken as the largest speed), used to show that C24
\* depends on the guard of line 256.
UnguardedSpeed(step_length, time_diff) ==
    IF time_diff = 0 THEN MAX_BURST_SPEED ELSE (step_length * 24) \div time_diff
\* line 256
MovementSpeed(step_length, time_diff) ==
    IF time_diff > 0 THEN (step_length * 24) \div time_diff ELSE 0

\* Variant of MovementTurningAngle that leaves every row at the initial 0, used
\* to show that C21 depends on lines 259-263.
NoTurningAngle(sdata, k) == ZeroAngle
\* lines 258-263 for the k-th row of sdata, k counting from 1 (the code's i
\* is k - 1)
MovementTurningAngle(sdata, k) ==
    IF k - 1 > 1
    THEN LET curr == sdata[k]
             prev == sdata[k - 1]
             prev2 == sdata[k - 2]
             bearing1 == Bearing(prev.latitude - prev2.latitude,
                                 prev.longitude - prev2.longitude)
             bearing2 == Bearing(curr.latitude - prev.latitude,
                                 curr.longitude - prev.longitude)
         IN  AngleDiff(bearing2, bearing1)
    ELSE ZeroAngle

\* lines 244-275: the feature row of the k-th row of sdata, k >= 2
MovementRow(shark_id, sdata, k) ==
    LET curr == sdata[k]
        prev == sdata[k - 1]
        step_length == Haversine(prev.latitude, prev.longitude,
                                 curr.latitude, curr.longitude)
        time_diff == curr.datetime - prev.datetime
    IN  [shark_id          |-> shark_id,
         latitude          |-> curr.latitude,
         longitude         |-> curr.longitude,
         datetime          |-> curr.datetime,
         pace_date         |-> curr.pace_date,
         original_datetime |-> curr.original_datetime,
         step_length       |-> step_length,
         turning_angle     |-> MovementTurningAngle(sdata, k),
         speed_km_day      |-> MovementSpeed(step_length, time_diff)]

\* lines 239-277 for one subject
SharkFeatures(shark_df, shark_id) ==
    LET sdata == Sdata(shark_df, shark_id)
    IN  IF TooShort(sdata) THEN <<>>
        ELSE [k \in 1..(Len(sdata) - 1) |-> MovementRow(shark_id, sdata, k + 1)]

RECURSIVE FeaturesOf(_, _)
FeaturesOf(shark_df, ids) ==
    IF ids = <<>> THEN <<>>
    ELSE FeaturesOf(shark_df, SubSeq(ids, 1, Len(ids) - 1))
            \o SharkFeatures(shark_df, ids[Len(ids)])

\* calculate_movement_features
CalculateMovementFeatures(shark_df) == FeaturesOf(shark_df, UniqueIds(shark_df))

MaxSharksKept == 50     \* max_sharks=50 in the call of line 331

\* lines 307-309: the rows of the first max_sharks subjects
SelectSharks(movement_df, max_sharks) ==
    LET ids == UniqueSharks(movement_df)
        selected_sharks == {ids[k] : k \in 1..Min(Len(ids), max_sharks)}
    IN  SelectSeq(movement_df, LAMBDA r : r.shark_id \in selected_sharks)

\* lines 312-317: the tables the fusion loop can build: every row gets the
\* six values of the composite its pace_date leads to, kept as the date of
\* that composite
Fused(movement_df, pace_data) ==
    {[k \in 1..Len(movement_df) |-> SetCol(movement_df[k], "env", choice[k])] :
        choice \in {c \in [1..Len(movement_df) -> Keys(pace_data)] :
                       \A k \in 1..Len(movement_df) :
                          c[k] \in ClosestDates(movement_df[k].pace_date, Keys(pace_data))}}

\* lines 285-289: no composite was loaded; the function prints and returns None
GiveUpOnComposites ==
    /\ pc = "pace_loaded"
    /\ NoComposites(Cardinality(prep.pace_data))
    /\ prep' = [prep EXCEPT !.log = Append(@, "Error: No PACE data found!")]
    /\ pc' = "no_composites"
    /\ UNCHANGED <<csv, df, df_constrained, df_final, df_enhanced, stages, detailed>>
    /\ UNCHANGED <<summary, engine, env_data>>

\* lines 292-298: the tracks are read, sorted and sampled
ReadAndSample(tables) ==
    /\ pc = "pace_loaded"
    /\ ~NoComposites(Cardinality(prep.pace_data))
    /\ \E t \in tables : \E df_sample \in Sampled(t) :
          prep' = [prep EXCEPT !.df_sample = df_sample]
    /\ pc' = "sampled"
    /\ UNCHANGED <<csv, df, df_constrained, df_final, df_enhanced, stages, detailed>>
    /\ UNCHANGED <<summary, engine, env_data>>

\* line 301
MapStep ==
    /\ pc = "sampled"
    /\ prep' = [prep EXCEPT !.df_mapped = MapSharkToPaceDates(prep.df_sample, prep.pace_data)]
    /\ pc' = "mapped"
    /\ UNCHANGED <<csv, df, df_constrained, df_final, df_enhanced, stages, detailed>>
    /\ UNCHANGED <<summary, engine, env_data>>

\* lines 304-309
FeatureStep ==
    /\ pc = "mapped"
    /\ prep' = [prep EXCEPT !.movement_df =
                   SelectSharks(CalculateMovementFeatures(prep.df_mapped), MaxSharksKept)]
    /\ pc' = "featured"
    /\ UNCHANGED <<csv, df, df_constrained, df_final, df_enhanced, stages, detailed>>
    /\ UNCHANGED <<summary, engine, env_data>>

\* lines 312-325: the covariates are fused in, the csv is written and the
\* count is printed
FuseAndSave ==
    /\ pc = "featured"
    /\ \E movement_df \in Fused(prep.movement_df, prep.pace_data) :
          /\ prep' = [prep EXCEPT !.movement_df = movement_df,
                                  !.log = Append(@, "Enhanced preprocessing complete")]
          /\ csv' = [exists |-> TRUE, rows |-> movement_df]
    /\ pc' = "preprocessed"
    /\ stages' = Append(stages, "feature_builder")
    /\ UNCHANGED <<df, df_constrained, df_final, df_enhanced, detailed>>
    /\ UNCHANGED <<summary, engine, env_data>>

(***************************************************************************)
(* The batches: the rows of preprocessed_shark_pace_data.csv.  The file    *)
(* written by preprocess_shark_data stamps every row with a PACE date, a   *)
(* midnight, so its pings are 0 or 24 hours apart; load_preprocessed_data  *)
(* reads whatever file has that name, and the 6-hour grid of the resampler *)
(* is made for pings a few hours apart, so files with pings 6 and 12 hours *)
(* apart are batches as well.                                              *)
(***************************************************************************)
PingGaps == {0, 6, 12, 24}

MaxPings == 3        \* pings of a pipeline batch
TypicalRow == [speed |-> 100, step |-> 25]
ExtremeRow == [speed |-> 3000, step |-> 750]

\* latitude of the k-th ping of a track, in whole degrees: the subject stays,
\* moves one degree per ping, or moves one degree and then four at once
PathLatitude(path, k) ==
    CASE path = "stay"   -> 0
      [] path = "steady" -> k - 1
      [] path = "burst"  -> IF k = 1 THEN 0 ELSE IF k = 2 THEN 1 ELSE 5

\* the track of subject 1: n pings, gap hours apart
LongTrack(n, gap, path, profile) ==
    [k \in 1..n |-> InputRow(1, (k - 1) * gap, PathLatitude(path, k) * Degree, 0,
                             profile.speed, profile.step, k)]

\* the track of subject 2: no ping, or a single one
ShortTracks == {<<>>, <<InputRow(2, 0, 0, 0, TypicalRow.speed, TypicalRow.step, 0)>>}

PipelineTables ==
    {t \in {LongTrack(n, gap, path, profile) \o short :
                n \in 0..MaxPings, gap \in PingGaps, path \in {"stay", "steady", "burst"},
                profile \in {TypicalRow, ExtremeRow}, short \in ShortTracks} :
        Len(t) <= MaxPings}

Init ==
    /\ pc = "start"
    /\ csv = NoFile
    /\ df = <<>>
    /\ df_constrained = <<>>
    /\ df_final = <<>>
    /\ df_enhanced = <<>>
    /\ stages = <<>>
    /\ detailed = <<>>
    /\ summary = NoSummary
    /\ engine = Idle
    /\ env_data = NoEnvData
    /\ prep = NoPrep

Next ==
    \/ PreprocessSharkData(PipelineTables)
    \/ LoadPreprocessedData
    \/ ConstrainStep
    \/ DiscretizeStep
    \/ InferStep
    \/ LabelStep
    \/ ExportStep

Spec == Init /\ [][Next]_vars

(***************************************************************************)
(* The constraint filter alone, on tables of any speeds and step lengths.  *)
(***************************************************************************)
MaxFilterRows == 2
FilterSpeeds == {-10, 100, 240, 241, 480, 481, 1776, 3000}
FilterSteps == {100, 201, 501, 888, 889}

\* the k-th row carries the covariates k
FilterTables(rows) ==
    {[k \in 1..Len(q) |-> InputRow(1, 0, 0, 0, q[k][1], q[k][2], k)] :
        q \in SeqsUpTo(FilterSpeeds \X FilterSteps, rows)}

InitFilter ==
    /\ pc = "loaded"
    /\ \E t \in FilterTables(MaxFilterRows) : csv = [exists |-> TRUE, rows |-> t] /\ df = t
    /\ df_constrained = <<>>
    /\ df_final = <<>>
    /\ df_enhanced = <<>>
    /\ stages = <<"feature_builder">>
    /\ detailed = <<>>
    /\ summary = NoSummary
    /\ engine = Idle
    /\ env_data = NoEnvData
    /\ prep = NoPrep

NextFilter == ConstrainStep

SpecFilter == InitFilter /\ [][NextFilter]_vars

(***************************************************************************)
(* The resampler alone: one subject's track with pings at any hours in any *)
(* order of rows; three pings on consecutive grid instants at any          *)
(* positions; or two subjects, each with one of a few tracks.              *)
(***************************************************************************)
MaxTrackPings == 3
MaxTime == 13
GridCoords == {0, Degree, 2 * Degree}

\* the k-th ping lies k - 1 degrees north and carries the covariates k
TimingTables(pings) ==
    {[k \in 1..Len(times) |->
         InputRow(1, times[k], (k - 1) * Degree, 0, TypicalRow.speed, TypicalRow.step, k)] :
        times \in SeqsUpTo(0..MaxTime, pings)}

GeometryTables ==
    {[k \in 1..3 |->
         InputRow(1, (k - 1) * StepIntervalHours, lats[k], lons[k],
                  TypicalRow.speed, TypicalRow.step, k)] :
        lats \in [1..3 -> GridCoords], lons \in [1..3 -> GridCoords]}

\* hours of the pings of a subject: none, one, two that match no grid point,
\* two that give one row (after a matched first grid point, or after an
\* unmatched and a matched one), three that give two rows
BatchTracks == {<<>>, <<0>>, <<4, 5>>, <<0, 7>>, <<4, 12>>, <<0, 6, 12>>}

BatchTrack(shark_id, times) ==
    [k \in 1..Len(times) |->
        InputRow(shark_id, times[k], (k - 1) * Degree, 0,
                 TypicalRow.speed, TypicalRow.step, 10 * shark_id + k)]

BatchTables == {BatchTrack(1, a) \o BatchTrack(2, b) : a \in BatchTracks, b \in BatchTracks}

InitResample ==
    /\ pc = "constrained"
    /\ \E t \in TimingTables(MaxTrackPings) \cup GeometryTables \cup BatchTables :
          /\ csv = [exists |-> TRUE, rows |-> t]
          /\ df = t
          /\ df_constrained = ApplySmartBiologicalConstraints(t)
    /\ df_final = <<>>
    /\ df_enhanced = <<>>
    /\ stages = <<"feature_builder", "constraint_filter">>
    /\ detailed = <<>>
    /\ summary = NoSummary
    /\ engine = Idle
    /\ env_data = NoEnvData
    /\ prep = NoPrep

NextResample == DiscretizeStep

SpecResample == InitResample /\ [][NextResample]_vars

(***************************************************************************)
(* bayesian_hmm_mcmc alone, called with thin = 1 or thin = 10 on a table   *)
(* of a few rows, some with a NaN covariate.                               *)
(***************************************************************************)
MaxEngineRows == 2
ThinValues == {1, Thin}
EngineSteps == {25, 750}
EngineCovariates == {Missing, 1, 2}

EngineTables(rows) ==
    {[k \in 1..Len(q) |-> InputRow(1, (k - 1) * StepIntervalHours, 0, 0,
                                   TypicalRow.speed, q[k][1], q[k][2])] :
        q \in SeqsUpTo(EngineSteps \X EngineCovariates, rows)}

InitInference ==
    /\ pc = "engine_called"
    /\ \E t \in EngineTables(MaxEngineRows) :
          /\ csv = [exists |-> TRUE, rows |-> t]
          /\ df = t
          /\ df_constrained = t
          /\ df_final = t
    /\ df_enhanced = <<>>
    /\ stages = <<"feature_builder", "constraint_filter", "resampler">>
    /\ detailed = <<>>
    /\ summary = NoSummary
    /\ \E thin \in ThinValues : engine = [Idle EXCEPT !.thin = thin]
    /\ env_data = NoEnvData
    /\ prep = NoPrep

NextInference ==
    \/ CollectFeatures
    \/ ScaleFeatures
    \/ FitModel
    \/ Predict
    \/ ThinStates
    \/ WriteColumns

SpecInference == InitInference /\ [][NextInference]_vars

(***************************************************************************)
(* The export alone, on labelled tables whose rows lie in the spatial bin  *)
(* of 0.0 degrees (latitudes 0.00 and 0.04) or of 0.1 degrees (0.06).      *)
(***************************************************************************)
MaxSummaryRows == 3
SummaryLatitudes == {0, 4, 6}
\* <<state_probability_0, predicted_state>>: sure of state 0, sure of state 1,
\* and state 1 with some uncertainty
SummaryOutcomes == {<<ProbScale, 0>>, <<0, 1>>, <<1, 1>>}

\* a scored and labelled table: shark, latitude and outcome of each row
SummaryTable(q) ==
    LET rows == [k \in 1..Len(q) |->
                    InputRow(q[k][1], (k - 1) * StepIntervalHours, q[k][2], 0,
                             TypicalRow.speed, TypicalRow.step, k)]
    IN  LabelBehavior(BayesianHmmMcmc(rows, [k \in 1..Len(q) |-> q[k][3]]))

SummaryTables(rows) ==
    {SummaryTable(q) :
        q \in SeqsUpTo({1, 2} \X SummaryLatitudes \X SummaryOutcomes, rows)}

InitSummary ==
    /\ pc = "labelled"
    /\ \E t \in SummaryTables(MaxSummaryRows) :
          /\ df_enhanced = t
          /\ df_final = t
          /\ df_constrained = t
    /\ csv = [exists |-> TRUE, rows |-> <<>>]
    /\ df = <<>>
    /\ stages = <<"feature_builder", "constraint_filter", "resampler", "inference">>
    /\ detailed = <<>>
    /\ summary = NoSummary
    /\ engine = Idle
    /\ env_data = NoEnvData
    /\ prep = NoPrep

NextSummary == ExportStep

SpecSummary == InitSummary /\ [][NextSummary]_vars

(***************************************************************************)
(* The environmental lookup alone.                                         *)
(***************************************************************************)
InitEnvironment ==
    /\ pc = "fusing"
    /\ csv = NoFile
    /\ df = <<>>
    /\ df_constrained = <<>>
    /\ df_final = <<>>
    /\ df_enhanced = <<>>
    /\ stages = <<>>
    /\ detailed = <<>>
    /\ summary = NoSummary
    /\ engine = Idle
    /\ env_data = NoEnvData
    /\ prep = NoPrep

NextEnvironment == ExtractPaceEnvironmentalData

SpecEnvironment == InitEnvironment /\ [][NextEnvironment]_vars

(***************************************************************************)
(* enhanced_train_hmm up to the call of bayesian_hmm_mcmc: the constraint  *)
(* filter and the resampler on files of any speeds, negative ones and ones *)
(* above the burst speed among them.                                       *)
(***************************************************************************)
NegativeRow == [speed |-> -10, step |-> 25]

TrainTables ==
    {LongTrack(n, gap, path, profile) \o short :
        n \in 0..MaxPings, gap \in PingGaps,
        path \in {"stay", "steady", "burst"},
        profile \in {TypicalRow, ExtremeRow, NegativeRow}, short \in ShortTracks}

InitTrain ==
    /\ pc = "loaded"
    /\ \E t \in TrainTables : csv = [exists |-> TRUE, rows |-> t] /\ df = t
    /\ df_constrained = <<>>
    /\ df_final = <<>>
    /\ df_enhanced = <<>>
    /\ stages = <<>>
    /\ detailed = <<>>
    /\ summary = NoSummary
    /\ engine = Idle
    /\ env_data = NoEnvData
    /\ prep = NoPrep

NextTrain ==
    \/ ConstrainStep
    \/ DiscretizeStep

SpecTrain == InitTrain /\ [][NextTrain]_vars

(***************************************************************************)
(* The satellite loader alone, on any short listing of the two             *)
(* directories.                                                            *)
(***************************************************************************)
MaxPaceFiles == 2
MaxSwotFiles == 1

\* what glob can list under pace_data/PACE_OCI.*.nc
PaceFiles ==
    {[date |-> 24, fault |-> "none", chlor_a |-> TRUE],
     [date |-> 24, fault |-> "none", chlor_a |-> FALSE],
     [date |-> 48, fault |-> "none", chlor_a |-> TRUE],
     [date |-> 24, fault |-> "name", chlor_a |-> TRUE],
     [date |-> 24, fault |-> "open", chlor_a |-> TRUE],
     [date |-> 24, fault |-> "read", chlor_a |-> TRUE]}

\* what glob can list under pace_data/pace_data_swot/SWOT_*.nc
SwotFiles ==
    {[fault |-> "none", ssh |-> TRUE],
     [fault |-> "none", ssh |-> FALSE],
     [fault |-> "open", ssh |-> TRUE],
     [fault |-> "read", ssh |-> TRUE]}

InitLoad ==
    /\ pc = "loading"
    /\ \E pace_files \in SeqsUpTo(PaceFiles, MaxPaceFiles),
          swot_files \in SeqsUpTo(SwotFiles, MaxSwotFiles) :
          prep = [NoPrep EXCEPT !.pace_files = pace_files, !.swot_files = swot_files]
    /\ csv = NoFile
    /\ df = <<>>
    /\ df_constrained = <<>>
    /\ df_final = <<>>
    /\ df_enhanced = <<>>
    /\ stages = <<>>
    /\ detailed = <<>>
    /\ summary = NoSummary
    /\ engine = Idle
    /\ env_data = NoEnvData

NextLoad ==
    \/ LoadPaceFile
    \/ LoadSwotFile
    \/ ReturnPaceData

SpecLoad == InitLoad /\ [][NextLoad]_vars

(***************************************************************************)
(* calculate_movement_features alone, on tables of any timestamps and      *)
(* positions: the track of subject 1, and a short track of subject 2.      *)
(***************************************************************************)
MaxFeaturePings == 3
FeatureTimes == {0, 24}
FeatureLatitudes == {0, Degree, 2 * Degree}
FeatureLongitudes == {0, Degree}

\* a row as map_shark_to_pace_dates leaves it
MappedRow(id, datetime, latitude, longitude) ==
    [id                |-> id,
     latitude          |-> latitude,
     longitude         |-> longitude,
     original_datetime |-> 0,
     datetime          |-> datetime,
     pace_date         |-> datetime]

FeaturePings ==
    {MappedRow(1, t, lat, lon) : t \in FeatureTimes, lat \in FeatureLatitudes,
                                 lon \in FeatureLongitudes}

FeatureShortTracks ==
    {<<>>, <<MappedRow(2, 0, 0, 0)>>, <<MappedRow(2, 0, 0, 0), MappedRow(2, 24, Degree, 0)>>}

FeatureTables(pings) ==
    {short \o long : short \in FeatureShortTracks,
                     long \in SeqsUpTo(FeaturePings, pings)}

InitFeatures ==
    /\ pc = "mapped"
    /\ \E t \in FeatureTables(MaxFeaturePings) : prep = [NoPrep EXCEPT !.df_mapped = t]
    /\ csv = NoFile
    /\ df = <<>>
    /\ df_constrained = <<>>
    /\ df_final = <<>>
    /\ df_enhanced = <<>>
    /\ stages = <<>>
    /\ detailed = <<>>
    /\ summary = NoSummary
    /\ engine = Idle
    /\ env_data = NoEnvData

NextFeatures == FeatureStep

SpecFeatures == InitFeatures /\ [][NextFeatures]_vars

(***************************************************************************)
(* preprocess_shark_data from the return of load_pace_data on: the tracks  *)
(* of sharks_cleaned.csv, pings six hours apart, and the composites of no, *)
(* one or two days.                                                        *)
(***************************************************************************)
MaxRawPings == 3

CompositeTables ==
    {{[date |-> d, chlor_a |-> TRUE] : d \in dates} : dates \in SUBSET {24, 48}}

\* sharks_cleaned.csv after line 294: the track of subject 1, then the track
\* of subject 2, each in the order of its timestamps
RawTables ==
    {[k \in 1..n |-> Ping(1, (k - 1) * StepIntervalHours, PathLatitude(path, k) * Degree, 0)]
        \o short :
        n \in 0..MaxRawPings, path \in {"stay", "steady"},
        short \in {<<>>, <<Ping(2, 0, 0, 0)>>}}

InitBuild ==
    /\ pc = "pace_loaded"
    /\ \E pace_data \in CompositeTables : prep = [NoPrep EXCEPT !.pace_data = pace_data]
    /\ csv = NoFile
    /\ df = <<>>
    /\ df_constrained = <<>>
    /\ df_final = <<>>
    /\ df_enhanced = <<>>
    /\ stages = <<>>
    /\ detailed = <<>>
    /\ summary = NoSummary
    /\ engine = Idle
    /\ env_data = NoEnvData

NextBuild ==
    \/ GiveUpOnComposites
    \/ ReadAndSample(RawTables)
    \/ MapStep
    \/ FeatureStep
    \/ FuseAndSave

SpecBuild == InitBuild /\ [][NextBuild]_vars

(***************************************************************************)
(* Properties of the constraint filter, checked under SpecFilter.          *)
(***************************************************************************)
Filtered == pc = "constrained" /\ Len(df_constrained) = Len(df)

\* C6: apply_smart_biological_constraints returns, for every row,
\* speed_km_day = min(max(input speed, 0), 1776); every row whose input speed
\* is at least 1776 km/day has the output speed 1776 and the speed_category
\* 'capped'.
C6_SpeedClampedToBurst ==
    pc = "constrained" =>
        /\ Len(df_constrained) = Len(df)
        /\ \A i \in 1..Len(df) :
              LET speed_in == df[i].speed_km_day
                  out      == df_constrained[i]
              IN  /\ speed_in < 0 => out.speed_km_day = 0
                  /\ (0 <= speed_in /\ speed_in <= 1776) => out.speed_km_day = speed_in
                  /\ speed_in >= 1776 =>
                        out.speed_km_day = 1776 /\ out.speed_category = "capped"

\* a row of input speed 3000 came out at 1776, tagged capped, and a row of
\* negative input speed came out at 0
C6_Witness ==
    /\ Filtered
    /\ \E i \in 1..Len(df) :
          /\ df[i].speed_km_day = 3000
          /\ df_constrained[i].speed_km_day = 1776
          /\ df_constrained[i].speed_category = "capped"
    /\ \E i \in 1..Len(df) : df[i].speed_km_day < 0 /\ df_constrained[i].speed_km_day = 0

\* C7: apply_smart_biological_constraints drops no row: the output has the
\* input's rows in the same order, the input table is left as it was, and
\* only speed_km_day and step_length change, besides the two added columns
\* speed_category and data_quality.
C7_NoRowDropped ==
    pc = "constrained" =>
        /\ df = csv.rows
        /\ Len(df_constrained) = Len(df)
        /\ \A i \in 1..Len(df) :
              /\ DOMAIN df_constrained[i] = DOMAIN df[i] \cup {"speed_category", "data_quality"}
              /\ \A c \in DOMAIN df[i] \ {"speed_km_day", "step_length"} :
                    df_constrained[i][c] = df[i][c]

\* a table of two rows, one of them both capped and of poor quality, came
\* through with both rows
C7_Witness ==
    /\ Filtered
    /\ Len(df) >= 2
    /\ \E i \in 1..Len(df) :
          /\ df_constrained[i].speed_category = "capped"
          /\ df_constrained[i].data_quality = "poor"
          /\ df_constrained[i].env = i

\* C8: after apply_smart_biological_constraints every row whose speed_km_day
\* equals MAX_BURST (1776) has a step_length of at most 888 km, and every row
\* whose speed_km_day is below MAX_BURST keeps its input step_length.
C8_StepCappedWithSpeed ==
    pc = "constrained" =>
        /\ Len(df_constrained) = Len(df)
        /\ \A i \in 1..Len(df) :
              /\ df_constrained[i].speed_km_day = 1776 => df_constrained[i].step_length <= 888
              /\ df_constrained[i].speed_km_day < 1776 =>
                    df_constrained[i].step_length = df[i].step_length

\* a step of 889 km was cut to 888 in a capped row and kept in a slower row
C8_Witness ==
    /\ Filtered
    /\ \E i \in 1..Len(df) :
          /\ df[i].step_length = 889
          /\ df_constrained[i].speed_km_day = 1776
          /\ df_constrained[i].step_length = 888
    /\ \E i \in 1..Len(df) :
          /\ df[i].step_length = 889
          /\ df_constrained[i].speed_km_day < 1776
          /\ df_constrained[i].step_length = 889

(***************************************************************************)
(* Properties of the resampler, checked under SpecResample.  They speak of *)
(* the pings of the loaded table df and of the rows of df_final once line  *)
(* 224 has run; a row the resampler emitted is one with a time_step.       *)
(***************************************************************************)
Resampled == pc = "discretized"

Subjects == {df[i].shark_id : i \in 1..Len(df)}
PingsOf(s) == {i \in 1..Len(df) : df[i].shark_id = s}
PingTimes(s) == {df[i].datetime : i \in PingsOf(s)}
Least(S) == CHOOSE x \in S : \A y \in S : x <= y
Greatest(S) == CHOOSE x \in S : \A y \in S : x >= y

\* the grid of subject s: the multiples of 6 h from the last one at or before
\* its first ping up to its last ping
GridOf(s) == {g \in (Least(PingTimes(s)) - 5)..Greatest(PingTimes(s)) : g % 6 = 0}

\* the time from g to the nearest ping of s
NearestDistance(s, g) == Least({Abs(t - g) : t \in PingTimes(s)})

IsEmitted(j) == "time_step" \in DOMAIN df_final[j]
EmittedAt(s, g) ==
    {j \in 1..Len(df_final) :
        IsEmitted(j) /\ df_final[j].shark_id = s /\ df_final[j].datetime = g}
EmittedOf(s) == {j \in 1..Len(df_final) : IsEmitted(j) /\ df_final[j].shark_id = s}

\* g and the grid point before it both have a ping within 3 hours
MatchedWithPredecessor(s, g) ==
    /\ g - 6 \in GridOf(s)
    /\ NearestDistance(s, g) <= 3
    /\ NearestDistance(s, g - 6) <= 3

\* C1 as claimed: for every subject with at least 2 pings, the resampler emits
\* exactly one observation for every grid timestamp whose nearest raw ping is
\* at most 3 hours away, the first grid timestamp and one whose predecessor
\* was unmatched included, and none for any other grid timestamp.
C1_Claimed_OneRowPerMatchedGridPoint ==
    Resampled =>
        \A s \in Subjects :
            Cardinality(PingsOf(s)) >= 2 =>
                \A g \in GridOf(s) :
                    Cardinality(EmittedAt(s, g)) = IF NearestDistance(s, g) <= 3 THEN 1 ELSE 0

\* C1 as amended: for every subject with at least 2 pings, the resampler
\* emits exactly one observation for every grid timestamp that is not the
\* subject's first, has a raw ping within 3 hours and follows a grid
\* timestamp that has a raw ping within 3 hours too, and none for any other
\* timestamp; a subject with fewer than 2 pings gets none.
C1_OneRowPerMatchedPair ==
    Resampled =>
        \A s \in Subjects :
            /\ \A g \in GridOf(s) :
                  Cardinality(EmittedAt(s, g)) = IF MatchedWithPredecessor(s, g) THEN 1 ELSE 0
            /\ \A j \in EmittedOf(s) : df_final[j].datetime \in GridOf(s)
            /\ Cardinality(PingsOf(s)) < 2 => EmittedOf(s) = {}

\* one subject has a matched grid point without a row after an unmatched one
\* and a row after that; one subject has a matched first grid point without
\* a row and a row after it
C1_Witness ==
    /\ Resampled
    /\ \E s \in Subjects :
          \E g \in GridOf(s) :
              /\ g - 12 \in GridOf(s)
              /\ NearestDistance(s, g - 12) > 3
              /\ NearestDistance(s, g - 6) <= 3
              /\ EmittedAt(s, g - 6) = {}
              /\ EmittedAt(s, g) # {}
    /\ \E s \in Subjects :
          /\ NearestDistance(s, Least(GridOf(s))) <= 3
          /\ EmittedAt(s, Least(GridOf(s))) = {}
          /\ EmittedOf(s) # {}

\* C2: every observation the resampler emits for a grid timestamp g carries
\* the position and the covariates of a raw ping of the same subject whose
\* time distance to g is the least among that subject's pings and is at most
\* 3 hours (nothing is interpolated or carried forward), and the emitted
\* grid timestamps of one subject are strictly increasing.
C2_RowCarriesNearestPing ==
    Resampled =>
        /\ \A j \in 1..Len(df_final) :
              IsEmitted(j) =>
                  \E i \in PingsOf(df_final[j].shark_id) :
                      /\ df_final[j].latitude = df[i].latitude
                      /\ df_final[j].longitude = df[i].longitude
                      /\ df_final[j].env = df[i].env
                      /\ Abs(df[i].datetime - df_final[j].datetime) <= 3
                      /\ \A k \in PingsOf(df_final[j].shark_id) :
                            Abs(df[i].datetime - df_final[j].datetime)
                                <= Abs(df[k].datetime - df_final[j].datetime)
        /\ \A j, k \in 1..Len(df_final) :
              (/\ j < k
               /\ IsEmitted(j)
               /\ IsEmitted(k)
               /\ df_final[j].shark_id = df_final[k].shark_id)
                  => df_final[j].datetime < df_final[k].datetime

\* two rows of one subject were emitted, one of them from a ping that lies
\* off its grid timestamp while an earlier ping lies nearer to the
\* timestamp than 6 hours
C2_Witness ==
    /\ Resampled
    /\ \E j, k \in 1..Len(df_final) :
          /\ j < k
          /\ IsEmitted(j)
          /\ IsEmitted(k)
          /\ df_final[j].shark_id = df_final[k].shark_id
          /\ \E i, h \in PingsOf(df_final[k].shark_id) :
                /\ df_final[k].env = df[i].env
                /\ df[i].datetime > df_final[k].datetime
                /\ df[h].datetime < df_final[k].datetime
                /\ df_final[k].datetime - df[h].datetime <= 3

\* C3 as claimed: when three consecutive grid timestamps are matched to three
\* collinear, equally spaced positions, the turning_angle of the observation
\* emitted for the third is 0, whatever the direction of travel.
C3_Claimed_StraightTrackTurnsZero ==
    Resampled =>
        \A s \in Subjects :
            \A g \in GridOf(s) :
                \A a, b, c \in PingsOf(s) :
                    (/\ df[a].datetime = g - 12
                     /\ df[b].datetime = g - 6
                     /\ df[c].datetime = g
                     /\ Cardinality(PingsOf(s)) = 3
                     /\ df[b].latitude - df[a].latitude = df[c].latitude - df[b].latitude
                     /\ df[b].longitude - df[a].longitude = df[c].longitude - df[b].longitude)
                        => \A j \in EmittedAt(s, g) : df_final[j].turning_angle = ZeroAngle

AllUnmatched(s) == \A g \in GridOf(s) : NearestDistance(s, g) > 3
YieldsNothing(s) == Cardinality(PingsOf(s)) < 2 \/ AllUnmatched(s)
SomeSubjectYields == \E s \in Subjects : \E g \in GridOf(s) : MatchedWithPredecessor(s, g)

\* C4 as claimed: a subject with fewer than 2 raw pings, or whose grid points
\* all fail to match, contributes no row to the table that the resampler
\* returns and enhanced_train_hmm passes to the inference engine, in every
\* batch, whatever the other subjects yield.
C4_Claimed_ShortTrackAbsent ==
    Resampled =>
        \A s \in Subjects :
            YieldsNothing(s) => \A j \in 1..Len(df_final) : df_final[j].shark_id # s

\* C4 as amended: when the resampler emits an observation for at least one
\* subject of the batch, a subject with fewer than 2 raw pings, or whose grid
\* points all fail to match, contributes no row to the table passed to the
\* inference engine; when it emits none for any subject, that table is the
\* constraint-filtered input itself, with every row of every subject.
C4_ShortTrackAbsentUnlessFallback ==
    Resampled =>
        IF SomeSubjectYields
        THEN \A s \in Subjects :
                 YieldsNothing(s) => \A j \in 1..Len(df_final) : df_final[j].shark_id # s
        ELSE df_final = df_constrained

\* a subject whose two pings match no grid point is absent from a table that
\* holds the rows emitted for another subject
C4_Witness ==
    /\ Resampled
    /\ \E j \in 1..Len(df_final) : IsEmitted(j)
    /\ \E s \in Subjects :
          /\ Cardinality(PingsOf(s)) >= 2
          /\ AllUnmatched(s)
          /\ \A j \in 1..Len(df_final) : df_final[j].shark_id # s

(***************************************************************************)
(* Properties of the whole run, checked under Spec.                        *)
(***************************************************************************)
\* every stage of order that has run was preceded by the stage listed before it
RanInOrder(order) ==
    \A k \in 2..Len(order) :
        \A b \in 1..Len(stages) :
            stages[b] = order[k] => \E a \in 1..(b - 1) : stages[a] = order[k - 1]

C9_Claimed_TagsReachExport ==
    pc = "labelled" =>
        \A i \in 1..Len(df_enhanced) :
            {"speed_category", "data_quality"} \subseteq DOMAIN df_enhanced[i]

BothStatesOccur == \E i, j \in 1..Len(df_enhanced) :
                       df_enhanced[i].predicted_state = 0 /\ df_enhanced[j].predicted_state = 1

\* mean speed of state s is greater than that of state 1 - s (both occurring)
FasterState(s) ==
    SumSpeed(df_enhanced, s) * CountState(df_enhanced, 1 - s)
        > SumSpeed(df_enhanced, 1 - s) * CountState(df_enhanced, s)

\* C10: whenever both states occur in the batch, enhanced_train_hmm labels
\* every observation of the state with the higher mean speed_km_day
\* 'Migrating' and every observation of the other state 'Foraging'; every
\* observation receives exactly one of the two labels.
C10_FasterStateMigrates ==
    pc \in {"labelled", "exported"} =>
        /\ \A i \in 1..Len(df_enhanced) :
              /\ "behavior" \in DOMAIN df_enhanced[i]
              /\ df_enhanced[i].behavior \in {"Foraging", "Migrating"}
        /\ BothStatesOccur =>
              \A s \in {0, 1} :
                  FasterState(s) =>
                      \A i \in 1..Len(df_enhanced) :
                          df_enhanced[i].behavior =
                              IF df_enhanced[i].predicted_state = s
                              THEN "Migrating" ELSE "Foraging"

\* rows the resampler emitted were labelled with state 0 the faster state,
\* against the default map
C10_Witness ==
    /\ pc = "labelled"
    /\ BothStatesOccur
    /\ FasterState(0)
    /\ \E i \in 1..Len(df_enhanced) :
          /\ "time_step" \in DOMAIN df_enhanced[i]
          /\ df_enhanced[i].predicted_state = 0
          /\ df_enhanced[i].behavior = "Migrating"

\* the table the same fit gives when the fitter numbers its two components
\* the other way round
SwapStates(d) ==
    [i \in 1..Len(d) |->
        SetCol(SetCol(SetCol(d[i], "predicted_state", 1 - d[i].predicted_state),
                      "state_probability_0", d[i].state_probability_1),
               "state_probability_1", d[i].state_probability_0)]

\* C11 as claimed: the behavior label of an observation does not depend on
\* which index (0 or 1) the fitter gave its component: exchanging 0 and 1 in
\* every predicted_state, with the same speeds, gives every observation the
\* same label, in every batch (both states present, one state only, or equal
\* mean speeds).
C11_Claimed_LabelIgnoresIndex ==
    pc = "labelled" =>
        LET relabelled == LabelBehavior(SwapStates(df_enhanced))
        IN  \A i \in 1..Len(df_enhanced) : relabelled[i].behavior = df_enhanced[i].behavior

(***************************************************************************)
(* Properties of bayesian_hmm_mcmc, checked under SpecInference.           *)
(***************************************************************************)
\* the call returned: every row of the table carries the four columns
Returned == pc = "inferred" /\ Len(df_enhanced) = Len(engine.state_probs)

\* C12: after bayesian_hmm_mcmc, for every observation state_uncertainty =
\* 1 - max(state_probability_0, state_probability_1), the two probabilities
\* sum to 1, state_uncertainty lies in [0, 0.5] and predicted_state is 0 or 1;
\* with thin <= 1 predicted_state is a component of the greatest probability.
C12_PosteriorColumns ==
    pc = "inferred" =>
        /\ Len(df_enhanced) = Len(engine.state_probs)
        /\ \A i \in 1..Len(df_enhanced) :
              LET r  == df_enhanced[i]
                  p0 == r.state_probability_0
                  p1 == r.state_probability_1
              IN  /\ p0 >= 0 /\ p1 >= 0 /\ p0 + p1 = ProbScale
                  /\ r.state_uncertainty = ProbScale - (IF p0 >= p1 THEN p0 ELSE p1)
                  /\ 0 <= r.state_uncertainty /\ 2 * r.state_uncertainty <= ProbScale
                  /\ r.predicted_state \in {0, 1}
                  /\ engine.thin <= 1 =>
                        (IF r.predicted_state = 0 THEN p0 >= p1 ELSE p1 >= p0)

\* a call with thin = 1 returned a row of state 1, the likelier one, and a
\* row of uncertainty above 0
C12_Witness ==
    /\ Returned
    /\ engine.thin <= 1
    /\ \E i \in 1..Len(df_enhanced) :
          /\ df_enhanced[i].predicted_state = 1
          /\ df_enhanced[i].state_probability_1 > df_enhanced[i].state_probability_0
    /\ \E i \in 1..Len(df_enhanced) : df_enhanced[i].state_uncertainty > 0

\* some row has been given posteriors or a state
Scoring == engine.state_probs # <<>> \/ engine.states # <<>> \/ df_enhanced # <<>>

\* C15: no row is scored before every row of the batch has been collected,
\* imputed and standardized together and the model has been fitted on the
\* full batch.
C15_FitPrecedesScoring ==
    (Scoring \/ pc \in {"predicted", "thinned", "inferred"}) =>
        /\ Len(engine.X) = Len(df_final)
        /\ ~HasNaN(engine.X)
        /\ engine.X_scaled = Standardized(engine.X)
        /\ Len(engine.X_scaled) = Len(df_final)
        /\ engine.fitted_on = Len(df_final)

\* the rows of a table with a NaN covariate, which the median of the other
\* rows replaced, were scored after the fit on all of them
C15_Witness ==
    /\ pc = "predicted"
    /\ Len(engine.state_probs) = Len(df_final)
    /\ engine.fitted_on = Len(df_final)
    /\ \E i \in 1..Len(df_final) : df_final[i].env = Missing /\ engine.X[i].env # Missing

\* C13 as claimed: if a feature column is constant over the whole batch, the
\* inference engine returns no state assignments: the call ends in an error,
\* and no row is scored.
C13_Claimed_ConstantColumnFails ==
    (Len(engine.X) >= NComponents /\ ConstantFeatures(engine.X) # {}) =>
        /\ pc \notin {"fitted", "predicted", "thinned", "inferred"}
        /\ engine.states = <<>>

\* C18 as claimed: every row written by export_foraging_areas_csv has a
\* speed_category that is one of Low, Medium, High, Very_High, for every
\* speed the pipeline can hand to export, from 0 up to the cap of 1776.
C18_Claimed_EveryRowCategorised ==
    pc = "exported" =>
        \A i \in 1..Len(detailed) :
            (0 <= detailed[i].speed_km_day /\ detailed[i].speed_km_day <= MAX_BURST_SPEED) =>
                detailed[i].speed_category \in {"Low", "Medium", "High", "Very_High"}

\* nothing of the modelling run exists: no stage has run, no table was built
\* and no output file was written
NothingDone ==
    /\ stages = <<>>
    /\ df = <<>> /\ df_constrained = <<>> /\ df_final = <<>> /\ df_enhanced = <<>>
    /\ detailed = <<>>
    /\ ~summary.written

\* C20: if the preprocessed CSV is absent, generate_plotting_csvs ends at once
\* without running the constraint filter, the resampler or the inference and
\* without writing an output file; if no satellite composite could be loaded,
\* preprocess_shark_data ends before it builds anything and writes no file.
\* Neither is retried: a run that ended for want of its input stays ended.
C20_MissingInputEndsRun ==
    /\ [](/\ ~csv.exists => (pc \in {"start", "no_composites", "no_data"} /\ NothingDone)
          /\ pc = "no_data" => ~csv.exists
          /\ pc = "no_composites" => ~csv.exists)
    /\ [][/\ pc = "no_data" => pc' = "no_data"
          /\ pc = "no_composites" => (pc' \in {"no_composites", "no_data"} /\ csv' = csv)]_vars

\* the csv was never written and the run that looked for it has ended with
\* nothing done
C20_Witness ==
    /\ pc = "no_data"
    /\ ~csv.exists
    /\ NothingDone

\* C28 (as claimed): for every observation of the table bayesian_hmm_mcmc
\* returns with thin = 10, predicted_state is the component of the larger
\* posterior probability, so the confidence the export writes, and the
\* high_confidence flag it derives, is the posterior probability of the state
\* the observation is assigned to.
C28_Claimed_ConfidenceOfAssignedState ==
    pc = "exported" =>
        \A i \in 1..Len(detailed) :
            LET r == detailed[i]
                assigned == ProbOf(r.state_probability_0, r.predicted_state)
            IN  /\ assigned >= ProbScale - assigned
                /\ r.confidence = assigned
                /\ r.high_confidence = 1 <=> 10 * assigned >= 7 * ProbScale

(***************************************************************************)
(* Properties of two runs on the same table, checked under Spec.  The fit  *)
(* is seeded (random_state=42), so a second run computes the posteriors of *)
(* the first; the draws of lines 199-200 come from numpy's global          *)
(* generator, which no line seeds.                                         *)
(***************************************************************************)
\* the outcomes a second run can have on the table of the first
SecondRuns ==
    {out \in [1..Len(df_enhanced) -> RowOutcomes(Thin)] :
        \A i \in 1..Len(df_enhanced) : out[i][1] = df_enhanced[i].state_probability_0}

\* C14 as claimed: two runs of the pipeline on identical input data give
\* every observation the same predicted_state and behavior, and give the
\* same hotspot ranking.
C14_Claimed_RunsAgree ==
    pc = "inferred" =>
        \A out \in SecondRuns :
            LET first  == LabelBehavior(df_enhanced)
                second == LabelBehavior(BayesianHmmMcmc(df_enhanced, out))
            IN  /\ \A i \in 1..Len(df_enhanced) :
                      /\ second[i].predicted_state = first[i].predicted_state
                      /\ second[i].behavior = first[i].behavior
                /\ CreateForagingSummaryCsv(second) = CreateForagingSummaryCsv(first)

(***************************************************************************)
(* Properties of the hotspot summary, checked under SpecSummary.           *)
(***************************************************************************)
Exported == pc = "exported"

\* the rows of df_enhanced labelled Foraging that fall into the bin of the
\* hotspot row h
ForagingIn(h) ==
    SelectSeq(df_enhanced,
              LAMBDA r : r.behavior = "Foraging" /\ BinOf(r) = <<h.latitude, h.longitude>>)

\* C16: create_foraging_summary_csv aggregates only observations with
\* behavior 'Foraging'; each output bin has foraging_intensity =
\* foraging_observations * (1 - mean state_uncertainty of the bin), to the 2
\* decimals it is written with, and the output rows are in non-increasing
\* foraging_intensity order.
C16_ForagingOnlyByIntensity ==
    Exported =>
        /\ summary.written <=> \E i \in 1..Len(df_enhanced) : df_enhanced[i].behavior = "Foraging"
        /\ \A k \in 1..Len(summary.rows) :
              LET h     == summary.rows[k]
                  group == ForagingIn(h)
                  n     == Len(group)
                  usum  == SumCol(group, "state_uncertainty")
              IN  /\ n > 0
                  /\ h.foraging_observations = n
                  \* 100 * n * (1 - usum / (n * ProbScale)), rounded
                  /\ 2 * Abs(ProbScale * h.foraging_intensity - 100 * (n * ProbScale - usum))
                        <= ProbScale
        /\ \A k \in 1..(Len(summary.rows) - 1) :
              summary.rows[k].foraging_intensity >= summary.rows[k + 1].foraging_intensity
        /\ \A i \in 1..Len(df_enhanced) :
              df_enhanced[i].behavior = "Foraging" =>
                  \E k \in 1..Len(summary.rows) :
                      BinOf(df_enhanced[i]) = <<summary.rows[k].latitude, summary.rows[k].longitude>>

\* a Migrating row was left out, and of two hotspots the more northern one,
\* of greater intensity, was written first
C16_Witness ==
    /\ Exported
    /\ \E i \in 1..Len(df_enhanced) : df_enhanced[i].behavior = "Migrating"
    /\ Len(summary.rows) = 2
    /\ summary.rows[1].latitude > summary.rows[2].latitude
    /\ summary.rows[1].foraging_intensity > summary.rows[2].foraging_intensity
    /\ summary.rows[2].foraging_intensity < 100 * summary.rows[2].foraging_observations

\* C17: for any set of Foraging observations whose coordinates all lie within
\* one 0.1 x 0.1 degree cell of the aggregation grid, create_foraging_summary_csv
\* produces exactly one hotspot row, whose foraging_observations is the
\* number of those observations and whose unique_sharks is the number of
\* distinct shark_ids among them.
C17_OneCellOneHotspot ==
    Exported =>
        LET foraging == SelectSeq(df_enhanced, LAMBDA r : r.behavior = "Foraging")
        IN  (Len(foraging) > 0 /\ \A i \in 1..Len(foraging) : BinOf(foraging[i]) = BinOf(foraging[1])) =>
                /\ summary.written
                /\ Len(summary.rows) = 1
                /\ summary.rows[1].foraging_observations = Len(foraging)
                /\ summary.rows[1].unique_sharks =
                      Cardinality({foraging[i].shark_id : i \in 1..Len(foraging)})

\* three Foraging observations of two subjects, at two different positions of
\* one cell, gave one hotspot of 3 observations and 2 subjects
C17_Witness ==
    /\ Exported
    /\ Len(df_enhanced) = 3
    /\ \A i \in 1..3 : df_enhanced[i].behavior = "Foraging"
    /\ \E i, j \in 1..3 : df_enhanced[i].latitude # df_enhanced[j].latitude
    /\ Len(summary.rows) = 1
    /\ summary.rows[1].foraging_observations = 3
    /\ summary.rows[1].unique_sharks = 2

(***************************************************************************)
(* Properties of the environmental lookup, checked under SpecEnvironment.  *)
(***************************************************************************)
\* C19: for any location, any composite contents and any random draws,
\* extract_pace_environmental_data returns chlor_a in [0.05, 5.0],
\* carbon_phyto in [5, 300], poc in [20, 500], sst in [10, 32], water_depth
\* in [-6000, -10] and eddy_speed in [0, 2.0].
C19_CovariatesWithinBounds ==
    env_data.extracted =>
        LET v == env_data.values
        IN  /\ 5 <= v.chlor_a /\ v.chlor_a <= 500
            /\ 5 <= v.carbon_phyto /\ v.carbon_phyto <= 300
            /\ 20 <= v.poc /\ v.poc <= 500
            /\ 10 <= v.sst /\ v.sst <= 32
            /\ -6000 <= v.water_depth /\ v.water_depth <= -10
            /\ 0 <= v.eddy_speed /\ v.eddy_speed <= 20

\* a chlor_a computed below 0.05 came out at 0.05, a water_depth computed
\* above -10 came out at -10, and an sst inside its range came out as computed
C19_Witness ==
    /\ env_data.extracted
    /\ env_data.raw.chlor_a < 5 /\ env_data.values.chlor_a = 5
    /\ env_data.raw.water_depth > -10 /\ env_data.values.water_depth = -10
    /\ env_data.raw.sst = 32 /\ env_data.values.sst = 32

(***************************************************************************)
(* Properties of calculate_movement_features, checked under SpecFeatures.  *)
(* They speak of its argument, prep.df_mapped, and of its result,          *)
(* prep.movement_df.                                                       *)
(***************************************************************************)
Featured == pc = "featured"

TrackIds == {prep.df_mapped[i].id : i \in 1..Len(prep.df_mapped)}
\* the pings of subject s in the order the table has them in
TrackOf(s) == SelectSeq(prep.df_mapped, LAMBDA r : r.id = s)
\* the feature rows of subject s
FeatureRowsOf(s) == SelectSeq(prep.movement_df, LAMBDA r : r.shark_id = s)

SamePlace(p, q) == p.latitude = q.latitude /\ p.longitude = q.longitude

\* the step from p to q as <<east, north>>; a step of no length has the
\* bearing atan2(0, 0) = 0, that of <<1, 0>>
StepVector(p, q) ==
    IF SamePlace(p, q) THEN <<1, 0>>
    ELSE <<q.longitude - p.longitude, q.latitude - p.latitude>>

\* turning the direction u by the angle t gives the direction v
TurnsInto(u, t, v) ==
    LET x == u[1] * t[1] - u[2] * t[2]
        y == u[1] * t[2] + u[2] * t[1]
    IN  /\ x * v[2] - y * v[1] = 0
        /\ x * v[1] + y * v[2] > 0

\* C21: for every row with two predecessors in its track, turning_angle is
\* the bearing of the current step minus the bearing of the previous step,
\* as one angle of the circle (the bearing of the previous step turned by it
\* is the bearing of the current step); it is 0 when the two steps are the
\* same step, and pi when the second step leads back to the first point.
C21_TurningAngleIsBearingChange ==
    Featured =>
        \A s \in TrackIds :
            LET track == TrackOf(s)
                rows == FeatureRowsOf(s)
            IN  (Len(track) >= 3 /\ Len(rows) = Len(track) - 1) =>
                    \A k \in 3..Len(track) :
                        LET a == track[k - 2]
                            b == track[k - 1]
                            c == track[k]
                            t == rows[k - 1].turning_angle
                        IN  /\ TurnsInto(StepVector(a, b), t, StepVector(b, c))
                            /\ t[1] * t[1] + t[2] * t[2] > 0
                            /\ (StepVector(a, b) = StepVector(b, c)) => t = <<1, 0>>
                            /\ (SamePlace(a, c) /\ ~SamePlace(a, b)) => t = <<-1, 0>>

\* a track A -> B -> A whose third row has the turning angle pi
C21_Witness ==
    /\ Featured
    /\ LET track == TrackOf(1)
           rows == FeatureRowsOf(1)
       IN  /\ Len(track) = 3 /\ Len(rows) = 2
           /\ SamePlace(track[1], track[3])
           /\ ~SamePlace(track[1], track[2])
           /\ rows[2].turning_angle = <<-1, 0>>

\* C23: a subject with fewer than 3 pings gets no feature row; a subject
\* with n >= 3 pings gets exactly n - 1 rows, the k-th of them for its pings
\* k and k + 1 (it carries the position of ping k + 1), and none for its
\* first ping.
C23_RowsPerTrack ==
    Featured =>
        /\ \A s \in TrackIds :
              LET track == TrackOf(s)
                  rows == FeatureRowsOf(s)
              IN  IF Len(track) < 3 THEN rows = <<>>
                  ELSE /\ Len(rows) = Len(track) - 1
                       /\ \A k \in 1..Len(rows) :
                             /\ SamePlace(rows[k], track[k + 1])
                             /\ rows[k].datetime = track[k + 1].datetime
        /\ \A i \in 1..Len(prep.movement_df) : prep.movement_df[i].shark_id \in TrackIds

\* a table with a track of 3 pings, which has 2 rows, and a track of 2 pings,
\* which has none
C23_Witness ==
    /\ Featured
    /\ Len(TrackOf(1)) = 3 /\ Len(FeatureRowsOf(1)) = 2
    /\ Len(TrackOf(2)) = 2 /\ Len(FeatureRowsOf(2)) = 0

\* a pair of consecutive pings of a track and the row built from it
ElapsedHours(track, k) == track[k + 1].datetime - track[k].datetime

\* C24: speed_km_day is 0, a number, for every consecutive pair whose elapsed
\* time is <= 0 hours or whose two positions are the same (step_length 0);
\* for every other pair it is step_length / elapsed_hours * 24.
C24_SpeedDefined ==
    Featured =>
        \A s \in TrackIds :
            LET track == TrackOf(s)
                rows == FeatureRowsOf(s)
            IN  Len(rows) = Len(track) - 1 =>
                    \A k \in 1..Len(rows) :
                        LET elapsed == ElapsedHours(track, k)
                            row == rows[k]
                        IN  /\ row.speed_km_day \in Nat
                            /\ SamePlace(track[k], track[k + 1]) => row.step_length = 0
                            /\ IF elapsed <= 0 \/ row.step_length = 0
                               THEN row.speed_km_day = 0
                               ELSE row.speed_km_day = (row.step_length * 24) \div elapsed

\* a track with a pair of equal timestamps at different places, a pair going
\* back in time, both of speed 0
C24_Witness ==
    /\ Featured
    /\ LET track == TrackOf(1)
           rows == FeatureRowsOf(1)
       IN  /\ Len(track) = 3 /\ Len(rows) = 2
           /\ ElapsedHours(track, 1) = 0 /\ rows[1].step_length > 0 /\ rows[1].speed_km_day = 0
           /\ ElapsedHours(track, 2) < 0 /\ rows[2].step_length > 0 /\ rows[2].speed_km_day = 0

(***************************************************************************)
(* Properties of preprocess_shark_data, checked under SpecBuild.           *)
(***************************************************************************)
\* calculate_movement_features has returned
FeaturesBuilt == pc \in {"featured", "preprocessed"}

\* C22 (as claimed): for every pair of consecutive pings (prev, curr) of a
\* subject that calculate_movement_features turns into a feature row, the
\* timestamp of curr is strictly later than that of prev.
C22_Claimed_TracksInTimeOrder ==
    FeaturesBuilt =>
        \A s \in TrackIds :
            LET track == TrackOf(s)
            IN  Len(FeatureRowsOf(s)) > 0 =>
                    \A k \in 2..Len(track) : track[k].datetime > track[k - 1].datetime

(***************************************************************************)
(* Properties of the date lookup of extract_pace_environmental_data,       *)
(* checked under SpecEnvironment.                                          *)
(***************************************************************************)
\* the lookup did not find the date among the keys
FellBack == env_data.extracted /\ env_data.pace_date \notin env_data.available

\* C25 (as claimed): when the date asked for is not a key of the composite
\* table, the composite used is one of least absolute time distance to it: no
\* other available composite is closer.
C25_Claimed_NearestComposite ==
    FellBack =>
        \A other \in env_data.available :
            Abs(env_data.closest - env_data.pace_date) <= Abs(other - env_data.pace_date)

(***************************************************************************)
(* Properties of load_pace_data, checked under SpecLoad.  Every state is   *)
(* one between two files of a loop, or the one the function returns in.    *)
(***************************************************************************)
\* C26 (as claimed): every dataset load_pace_data has opened is closed before
\* it goes on to the next file and before it returns, also when reading a
\* variable from it has raised.
C26_Claimed_DatasetsClosed == prep.open = {}

\* map_shark_to_pace_dates has returned
Mapped == pc \in {"mapped", "featured", "preprocessed"}

\* how many loaded composite dates lie before date
DatesBefore(date) == Cardinality({d \in Keys(prep.pace_data) : d < date})

\* C30: every observation's pace_date is one of the loaded composite dates,
\* row i (counted from 0) getting the (i mod number-of-dates)-th in sorted
\* order; the mapping keeps the number of rows and the rows' subjects and
\* positions, and stores each row's own timestamp in original_datetime; so
\* every lookup of the fusion loop finds its date among the keys and uses
\* the composite of that date, never the nearest-date fallback.
C30_DatesFromComposites ==
    /\ Mapped =>
          /\ Len(prep.df_mapped) = Len(prep.df_sample)
          /\ \A i \in 1..Len(prep.df_mapped) :
                LET row == prep.df_mapped[i]
                    own == prep.df_sample[i]
                IN  /\ row.pace_date \in Keys(prep.pace_data)
                    /\ DatesBefore(row.pace_date) = (i - 1) % Cardinality(prep.pace_data)
                    /\ row.datetime = row.pace_date
                    /\ row.original_datetime = own.datetime
                    /\ row.id = own.id /\ SamePlace(row, own)
    /\ FeaturesBuilt =>
          \A i \in 1..Len(prep.movement_df) :
              prep.movement_df[i].pace_date \in Keys(prep.pace_data)
    /\ pc = "preprocessed" =>
          \A i \in 1..Len(csv.rows) : csv.rows[i].env = csv.rows[i].pace_date

\* the csv has been written with rows of two different composite dates, each
\* with the covariates of its own date
C30_Witness ==
    /\ pc = "preprocessed"
    /\ Cardinality(prep.pace_data) = 2
    /\ \E i, j \in 1..Len(csv.rows) :
          /\ csv.rows[i].pace_date # csv.rows[j].pace_date
          /\ csv.rows[i].env = csv.rows[i].pace_date
          /\ csv.rows[j].env = csv.rows[j].pace_date
          /\ csv.rows[i].original_datetime # csv.rows[i].datetime

(***************************************************************************)
(* Properties of what preprocess_shark_data prints, checked under          *)
(* SpecBuild.                                                              *)
(***************************************************************************)
\* the subjects calculate_movement_features has skipped
SkippedTracks == {s \in TrackIds : Len(TrackOf(s)) < MinTrack}

\* the lines printed that are not the two of lines 288 and 323
SkipRecords ==
    SelectSeq(prep.log, LAMBDA m : m \notin {"Error: No PACE data found!",
                                            "Enhanced preprocessing complete"})

\* C27 (as claimed): when a track is too short to featurize the event is
\* recorded, the track alone is skipped and the other tracks are processed.
C27_Claimed_SkipsAreLogged ==
    FeaturesBuilt =>
        /\ Len(SkipRecords) >= Cardinality(SkippedTracks)
        /\ \A s \in TrackIds \ SkippedTracks : Len(FeatureRowsOf(s)) = Len(TrackOf(s)) - 1

(***************************************************************************)
(* Properties of the table enhanced_train_hmm hands to bayesian_hmm_mcmc,  *)
(* checked under SpecTrain.                                                *)
(***************************************************************************)
\* C29: every row enhanced_train_hmm passes to bayesian_hmm_mcmc has
\* 0 <= speed_km_day <= 1776 (74 * 24), when the resampler has emitted the
\* rows and when it has emitted none and the constraint-filtered table is
\* passed instead.
C29_SpeedWithinBurst ==
    pc = "discretized" =>
        \A i \in 1..Len(df_final) :
            0 <= df_final[i].speed_km_day /\ df_final[i].speed_km_day <= 1776

\* the resampler has emitted the rows, one of them for a step that is more
\* than 1776 km/day over six hours and carries 1776
C29_Witness ==
    /\ pc = "discretized"
    /\ \E i \in 1..Len(df_final) :
          /\ "time_step" \in DOMAIN df_final[i]
          /\ df_final[i].step_length * 24 > 1776 * StepIntervalHours
          /\ df_final[i].speed_km_day = 1776
====
